---- MODULE Spec2Model ----
(***************************************************************************)
(* A model of the tau runtime core: the reactor (IO sources, timers, one   *)
(* react quantum split at its lock boundaries) and the executor (ready     *)
(* queue, try_tick, block_on), from crates/tau-rt/src/reactor.rs and       *)
(* crates/tau-rt/src/executor.rs.                                          *)
(***************************************************************************)
EXTENDS Integers, Sequences, FiniteSets, TLC

\* ------------------------------------------------------------------ bounds
MaxTime == 2        \* the clock runs 0..MaxTime
MaxDur == 1         \* timer durations 0..MaxDur
MaxTimers == 2      \* timer ids handed out by timer_create
MaxSlots == 1       \* slab slots of the source table
MaxFail == 1        \* poller wait failures during one block_on
MaxLines == 3       \* lines in a rendered frame
MaxWidth == 2       \* terminal widths 0..MaxWidth
MaxOverlays == 2    \* overlays shown on one TUI
MaxChildren == 1    \* children of the root container
MaxEvents == 2      \* events sent to one run loop
MaxSenders == 1     \* senders handed out per channel
MaxItems == 3       \* items of a SelectList
MaxVisible == 2     \* max_visible a SelectList is made with
MaxChars == 3       \* characters in the buffer of an Input
MaxCols == 4        \* render widths of an Input, 0..MaxCols
MaxStr == 6         \* bytes of a string given to strip_ansi
MaxWakers == 1      \* wakers one react call has collected

\* ------------------------------------------------------------- universes
Threads == {1}                       \* threads inside react; every other call
                                     \* may come from any other thread
TestWakers == {<<"fn", 1>>, <<"fn", 2>>}  \* closure wakers (reactor.rs tests)
Fds == {10, 11}                      \* raw file descriptors
TimerIds == 0 .. MaxTimers - 1       \* the timer ids callers pass
Handles == 0 .. MaxSlots - 1         \* the IO handles callers pass
MainTask == <<"task", 0>>            \* the task block_on runs
AuxTasks == {<<"task", 1>>}          \* tasks spawned besides it
Tasks == {MainTask} \cup AuxTasks
Driver == CHOOSE t \in Threads : TRUE  \* the thread that runs block_on

VARIABLES
    now,        \* Instant::now()
    timer_id,   \* Reactor.timer_id (AtomicU64)
    timers,     \* Reactor.timers: TimerState [heap, deadlines]
    sources,    \* Reactor.sources: the occupied slab slots, key -> Source
    vacant,     \* the slab's free list, most recently freed first
    poller,     \* the OS poller's interest list: fd -> [key, r, w]
    frame,      \* per thread: the react call in progress (locals and position)
    last,       \* history: what the last reactor call returned, if it was a poll
    panicked,   \* a reactor call panicked (the process is gone)
    cancelled,  \* history: timer ids whose timer_cancel returned while a react
                \* call holds the waker it collected for them
    dereg,      \* history: per thread, keys deregistered while it holds its event list
    observed,   \* history: key -> [r, w]: the latch was set by an event of this source
    queue,      \* Executor.queue
    tstate,     \* async-task state per task: none | scheduled | idle | done
    future,     \* per task: the future it runs [kind, timer], and for the
                \* record the deadline of the timer it awaits
    bpc,        \* block_on's position
    did_work,   \* block_on's did_work
    fails,      \* poller wait failures so far
    iface,      \* tau-iface values: [timer]: Timer values by reactor handle;
                \* [sock]: socket values by fd; [open]: the fds the OS has open
    lk,         \* per thread calling the reactor: the calls in progress, the
                \* position in each, and the reactor locks the thread holds
    tui,        \* TUI: previous_lines, previous_width, cursor_row,
                \* hardware_cursor_row, and for the record whether it rendered
    term,       \* the Terminal: its width and the calls of the latest render
    screen,     \* a model terminal the written bytes are replayed on:
                \* rows of text, cursor row and column
    app,        \* TUI: focused, overlays, the visibility cells the overlay
                \* handles share, and the state of run
    sl,         \* a SelectList component
    inp,        \* an Input component
    txt         \* a string given to strip_ansi, and what it was turned into

vars == <<now, timer_id, timers, sources, vacant, poller, frame, last,
          panicked, cancelled, dereg, observed, queue, tstate, future,
          bpc, did_work, fails, iface, lk, tui, term, screen, app, sl, inp, txt>>

\* The TUI engine and its terminal
ui == <<tui, term, screen, app, sl, inp, txt>>

\* The runtime: reactor, executor and the tau-iface values
rt == <<now, timer_id, timers, sources, vacant, poller, frame, last,
        panicked, cancelled, dereg, observed, queue, tstate, future,
        bpc, did_work, fails, iface, lk>>

\* --------------------------------------------------------------- helpers
None == "none"

\* Option<Waker>::None
NoWaker == <<"none", 0>>

\* block_on's short timeout, 10 ms, as one step of the clock (executor.rs:83)
ShortTimeout == 1

\* Option<Duration>::None, the wait without a timeout (line 213)
NoTimeout == 0 - 1

Without(f, k) == [x \in DOMAIN f \ {k} |-> f[x]]

With(f, k, v) == [x \in DOMAIN f \cup {k} |-> IF x = k THEN v ELSE f[x]]

Min(a, b) == IF a <= b THEN a ELSE b

\* (deadline, id) order of the BTreeMap keys
KeyLess(a, b) == a[1] < b[1] \/ (a[1] = b[1] /\ a[2] < b[2])

FirstKey(S) == CHOOSE a \in S : \A b \in S \ {a} : KeyLess(a, b)

RECURSIVE SortedKeys(_)
SortedKeys(S) ==
    IF S = {} THEN <<>>
    ELSE LET a == FirstKey(S) IN <<a>> \o SortedKeys(S \ {a})

\* What a poll call returned: the call, its handle, Ready | Pending | Panic,
\* and whether a timer_poll found the deadline passed (line 177)
Ret(op, h, res) == [op |-> op, h |-> h, res |-> res, expired |-> FALSE]

\* The last call was not a poll
NoCall == Ret("none", 0, None)

IdleFrame ==
    [pc |-> "idle", now |-> 0, timeout |-> 0, eff |-> 0,
     wakers |-> <<>>, events |-> <<>>, res |-> None,
     drained |-> {}, woken |-> <<>>, until |-> 0]

\* The wakers the react calls in progress hold, collected and not yet invoked
HeldWakers == UNION {{frame[t].wakers[i] : i \in DOMAIN frame[t].wakers} : t \in Threads}

\* The timer ids among them
Held == {wk.h : wk \in {x \in HeldWakers : x.src = "timer"}}

\* ---------------------------------------------------------------- timers
\* timer_create: lines 153-158
timer_create(ts, id, deadline) ==
    [ts EXCEPT !.deadlines = With(ts.deadlines, id, deadline)]

\* Fault of timer_cancel: the id leaves the id-map and its key stays in the heap
timer_cancel_keeps_key(ts, id) ==
    [ts EXCEPT !.deadlines = Without(ts.deadlines, id)]

\* timer_cancel: lines 163-166
timer_cancel(ts, id) ==
    IF id \in DOMAIN ts.deadlines
    THEN [deadlines |-> Without(ts.deadlines, id),
          heap |-> Without(ts.heap, <<ts.deadlines[id], id>>)]
    ELSE ts

\* Fault of timer_poll: an id without an id-map entry is reported Pending
timer_poll_absent_pending(ts, id, w, t) ==
    IF id \notin DOMAIN ts.deadlines
    THEN [ts |-> ts, res |-> "Pending", expired |-> FALSE]
    ELSE LET deadline == ts.deadlines[id] IN
         IF t >= deadline
         THEN [ts |-> [deadlines |-> Without(ts.deadlines, id),
                       heap |-> Without(ts.heap, <<deadline, id>>)],
               res |-> "Ready", expired |-> TRUE]
         ELSE [ts |-> [ts EXCEPT !.heap = With(ts.heap, <<deadline, id>>, w)],
               res |-> "Pending", expired |-> FALSE]

\* Fault of timer_poll: the deadline itself does not count as passed
timer_poll_late(ts, id, w, t) ==
    IF id \notin DOMAIN ts.deadlines
    THEN [ts |-> ts, res |-> "Ready", expired |-> FALSE]
    ELSE LET deadline == ts.deadlines[id] IN
         IF t > deadline
         THEN [ts |-> [deadlines |-> Without(ts.deadlines, id),
                       heap |-> Without(ts.heap, <<deadline, id>>)],
               res |-> "Ready", expired |-> TRUE]
         ELSE [ts |-> [ts EXCEPT !.heap = With(ts.heap, <<deadline, id>>, w)],
               res |-> "Pending", expired |-> FALSE]

\* timer_poll: lines 171-185; the new tables, the result, and whether the
\* branch of line 177 was taken
timer_poll(ts, id, w, t) ==
    IF id \notin DOMAIN ts.deadlines
    THEN [ts |-> ts, res |-> "Ready", expired |-> FALSE]
    ELSE LET deadline == ts.deadlines[id] IN
         IF t >= deadline
         THEN [ts |-> [deadlines |-> Without(ts.deadlines, id),
                       heap |-> Without(ts.heap, <<deadline, id>>)],
               res |-> "Ready", expired |-> TRUE]
         ELSE [ts |-> [ts EXCEPT !.heap = With(ts.heap, <<deadline, id>>, w)],
               res |-> "Pending", expired |-> FALSE]

TimerCreate(d) ==
    /\ ~panicked
    /\ timer_id < MaxTimers
    /\ timer_id' = timer_id + 1
    /\ timers' = timer_create(timers, timer_id, now + d)
    /\ last' = NoCall
    /\ UNCHANGED <<ui, lk, iface, now, sources, vacant, poller, frame, panicked, cancelled,
                   dereg, observed, queue, tstate, future, bpc, did_work, fails>>

TimerCancel(id) ==
    /\ ~panicked
    /\ timers' = timer_cancel(timers, id)
    /\ cancelled' = cancelled \cup ({id} \cap Held)
    /\ last' = NoCall
    /\ UNCHANGED <<ui, lk, iface, now, timer_id, sources, vacant, poller, frame, panicked,
                   dereg, observed, queue, tstate, future, bpc, did_work, fails>>

TimerPoll(id, w) ==
    /\ ~panicked
    /\ LET r == timer_poll(timers, id, w, now) IN
         /\ timers' = r.ts
         /\ last' = [Ret("timer_poll", id, r.res) EXCEPT !.expired = r.expired]
    /\ UNCHANGED <<ui, lk, iface, now, timer_id, sources, vacant, poller, frame, panicked,
                   cancelled, dereg, observed, queue, tstate, future, bpc,
                   did_work, fails>>

\* Instant::now() moves on
Tick ==
    /\ now < MaxTime
    /\ now' = now + 1
    /\ UNCHANGED <<ui, lk, iface, timer_id, timers, sources, vacant, poller, frame, last,
                   panicked, cancelled, dereg, observed, queue, tstate, future,
                   bpc, did_work, fails>>

\* ------------------------------------------------------------ IO sources
NewSource(fd, key) ==
    [raw_fd |-> fd, key |-> key, registered |-> FALSE, read_waker |-> NoWaker,
     write_waker |-> NoWaker, read_ready |-> FALSE, write_ready |-> FALSE]

\* Slab::vacant_entry().key(): the most recently freed slot, else a new one
vacant_key == IF vacant # <<>> THEN Head(vacant) ELSE Cardinality(DOMAIN sources)

\* io_register: lines 64-78
IoRegister(fd) ==
    /\ ~panicked
    /\ vacant_key < MaxSlots
    /\ sources' = With(sources, vacant_key, NewSource(fd, vacant_key))
    /\ vacant' = IF vacant # <<>> THEN Tail(vacant) ELSE vacant
    /\ observed' = [observed EXCEPT ![vacant_key] = [r |-> FALSE, w |-> FALSE]]
    /\ last' = NoCall
    /\ UNCHANGED <<ui, lk, iface, now, timer_id, timers, poller, frame, panicked, cancelled,
                   dereg, queue, tstate, future, bpc, did_work, fails>>

\* io_deregister: lines 81-92; Poller::delete leaves no entry for the fd
IoDeregister(h) ==
    /\ ~panicked
    /\ IF h \in DOMAIN sources
       THEN /\ sources' = Without(sources, h)
            /\ vacant' = <<h>> \o vacant
            /\ poller' = IF sources[h].registered
                         THEN Without(poller, sources[h].raw_fd)
                         ELSE poller
            /\ dereg' = [t \in Threads |->
                           IF frame[t].pc = "polled" THEN dereg[t] \cup {h}
                           ELSE dereg[t]]
       ELSE UNCHANGED <<sources, vacant, poller, dereg>>
    /\ last' = NoCall
    /\ UNCHANGED <<ui, lk, iface, now, timer_id, timers, frame, panicked, cancelled, observed,
                   queue, tstate, future, bpc, did_work, fails>>

\* The interest update_interest computes: lines 129-133
Interest(source) ==
    [key |-> source.key, r |-> source.read_waker # NoWaker,
     w |-> source.write_waker # NoWaker]

\* update_interest: lines 135-145. os_ok: the poller call succeeds at the OS
\* (its error is dropped by let _); add fails on an fd already in the
\* interest list, modify on one that is not.
update_interest_poller(source, os_ok) ==
    IF source.registered
    THEN IF os_ok /\ source.raw_fd \in DOMAIN poller
         THEN With(poller, source.raw_fd, Interest(source))
         ELSE poller
    ELSE IF os_ok /\ source.raw_fd \notin DOMAIN poller
         THEN With(poller, source.raw_fd, Interest(source))
         ELSE poller

update_interest_source(source) == [source EXCEPT !.registered = TRUE]

\* io_poll_readable / io_poll_writable: lines 96-125. dir is "r" or "w".
\* sources[key] on a key the slab does not hold panics (slab's Index).
io_poll(op, dir, h, w, os_ok) ==
    IF h \notin DOMAIN sources
    THEN /\ panicked' = TRUE
         /\ last' = Ret(op, h, "Panic")
         /\ UNCHANGED <<sources, poller, observed>>
    ELSE LET source == sources[h]
             ready == IF dir = "r" THEN source.read_ready ELSE source.write_ready
         IN IF ready
            THEN /\ sources' = [sources EXCEPT ![h] =
                      IF dir = "r" THEN [source EXCEPT !.read_ready = FALSE]
                      ELSE [source EXCEPT !.write_ready = FALSE]]
                 /\ observed' = [observed EXCEPT ![h][dir] = FALSE]
                 /\ last' = Ret(op, h, "Ready")
                 /\ UNCHANGED <<poller, panicked>>
            ELSE LET stored == IF dir = "r" THEN [source EXCEPT !.read_waker = w]
                               ELSE [source EXCEPT !.write_waker = w]
                 IN /\ poller' = update_interest_poller(stored, os_ok)
                    /\ sources' = [sources EXCEPT ![h] = update_interest_source(stored)]
                    /\ last' = Ret(op, h, "Pending")
                    /\ UNCHANGED <<panicked, observed>>

IoPollReadable(h, w) ==
    /\ ~panicked
    /\ \E os_ok \in BOOLEAN : io_poll("io_poll_readable", "r", h, w, os_ok)
    /\ UNCHANGED <<ui, lk, iface, now, timer_id, timers, vacant, frame, cancelled, dereg,
                   queue, tstate, future, bpc, did_work, fails>>

IoPollWritable(h, w) ==
    /\ ~panicked
    /\ \E os_ok \in BOOLEAN : io_poll("io_poll_writable", "w", h, w, os_ok)
    /\ UNCHANGED <<ui, lk, iface, now, timer_id, timers, vacant, frame, cancelled, dereg,
                   queue, tstate, future, bpc, did_work, fails>>

\* -------------------------------------------------------------- executor
\* schedule (lines 27-29) behind async-task's waker: a task waiting for a
\* wake-up is pushed to the ready queue; a scheduled or finished one is not.
schedule(q, ts, w) ==
    IF w \in Tasks /\ ts[w] = "idle"
    THEN [queue |-> Append(q, w), tstate |-> [ts EXCEPT ![w] = "scheduled"]]
    ELSE [queue |-> q, tstate |-> ts]

\* ----------------------------------------------------------------- react
\* A waker react has collected, with where it was stored
TimerWaker(key) == [w |-> timers.heap[key], src |-> "timer", h |-> key[2]]

IoWaker(w, dir, key) == [w |-> w, src |-> dir, h |-> key]

\* react, line 196: the time is sampled before the timers lock is taken
ReactBegin(t, timeout) ==
    /\ ~panicked
    /\ frame[t].pc = "idle"
    /\ frame' = [frame EXCEPT ![t] =
                   [IdleFrame EXCEPT !.pc = "entered", !.now = now,
                                     !.timeout = timeout]]
    /\ UNCHANGED <<ui, lk, iface, now, timer_id, timers, sources, vacant, poller, last,
                   panicked, cancelled, dereg, observed, queue, tstate, future,
                   bpc, did_work, fails>>

\* Fault of the expiry test: a deadline equal to the sampled time is not expired
ExpiredLate(t) == {k \in DOMAIN timers.heap : k[1] < frame[t].now}

\* The keys the loop of lines 198-208 removes: every key up to the sampled time
Expired(t) == {k \in DOMAIN timers.heap : k[1] <= frame[t].now}

\* lines 205-206: the time to the next timer, none if the heap is empty
next_timer(t) ==
    LET rest == DOMAIN timers.heap \ Expired(t) IN
    IF rest = {} THEN NoTimeout ELSE FirstKey(rest)[1] - frame[t].now

\* lines 212-216
effective_timeout(timeout, next) ==
    IF timeout = NoTimeout THEN next
    ELSE IF next = NoTimeout THEN timeout
    ELSE Min(timeout, next)

\* react step 1, lines 195-216, under the timers lock; now and timeout are
\* not read after it
ReactDrain(t) ==
    /\ frame[t].pc = "entered"
    /\ LET keys == SortedKeys(Expired(t)) IN
         /\ timers' = [heap |-> [k \in DOMAIN timers.heap \ Expired(t) |-> timers.heap[k]],
                       deadlines |-> [i \in DOMAIN timers.deadlines \
                                            {k[2] : k \in Expired(t)} |->
                                        timers.deadlines[i]]]
         /\ frame' = [frame EXCEPT ![t] =
                [@ EXCEPT !.pc = "drained",
                          !.wakers = [i \in 1 .. Len(keys) |-> TimerWaker(keys[i])],
                          !.drained = {k[2] : k \in Expired(t)},
                          !.timeout = 0,
                          !.now = 0,
                          !.eff = effective_timeout(frame[t].timeout, next_timer(t))]]
    /\ UNCHANGED <<ui, lk, iface, now, timer_id, sources, vacant, poller, last, panicked,
                   cancelled, dereg, observed, queue, tstate, future, bpc,
                   did_work, fails>>

\* line 220: the events lock; a second react waits here while one is in wait
ReactLockEvents(t) ==
    /\ frame[t].pc = "drained"
    /\ \A u \in Threads : frame[u].pc # "waiting"
    /\ frame' = [frame EXCEPT ![t].pc = "waiting"]
    /\ UNCHANGED <<ui, lk, iface, now, timer_id, timers, sources, vacant, poller, last,
                   panicked, cancelled, dereg, observed, queue, tstate, future,
                   bpc, did_work, fails>>

\* The descriptors with armed interest
Armed == {fd \in DOMAIN poller : poller[fd].r \/ poller[fd].w}

\* The orders in which the poller may report the descriptors of F
Orders(F) ==
    {s \in [1 .. Cardinality(F) -> F] : \A i, j \in DOMAIN s : s[i] = s[j] => i = j}

\* One reported event: (key, readable, writable) of line 225
Event(fd, r, w) == [key |-> poller[fd].key, readable |-> r, writable |-> w]

\* What one armed descriptor may report: a direction it is armed for
Reports(fd) ==
    {e \in {Event(fd, r, w) : r, w \in BOOLEAN} :
        /\ e.readable \/ e.writable
        /\ e.readable => poller[fd].r
        /\ e.writable => poller[fd].w}

\* Oneshot: a descriptor that reported is disarmed until modify re-arms it
Disarm(F) ==
    [fd \in DOMAIN poller |->
        IF fd \in F THEN [poller[fd] EXCEPT !.r = FALSE, !.w = FALSE]
        ELSE poller[fd]]

\* react step 3, lines 219-227: the wait succeeds with some events ...
ReactWaitOk(t) ==
    /\ frame[t].pc = "waiting"
    /\ \E F \in SUBSET Armed : \E order \in Orders(F) :
       \E evs \in [1 .. Cardinality(F) -> UNION {Reports(fd) : fd \in F}] :
         /\ \A i \in DOMAIN evs : evs[i] \in Reports(order[i])
         /\ poller' = Disarm(F)
         /\ frame' = [frame EXCEPT ![t].pc = "polled", ![t].events = evs,
                                   ![t].eff = 0]
    /\ dereg' = [dereg EXCEPT ![t] = {}]
    /\ UNCHANGED <<ui, lk, iface, now, timer_id, timers, sources, vacant, last, panicked,
                   cancelled, observed, queue, tstate, future, bpc, did_work,
                   fails>>

\* ... or fails: the ? of line 222 returns, dropping the collected wakers
ReactWaitErr(t) ==
    /\ frame[t].pc = "waiting"
    /\ frame' = [frame EXCEPT ![t] = [IdleFrame EXCEPT !.res = "Err"]]
    /\ cancelled' = cancelled \ {frame[t].wakers[i].h : i \in DOMAIN frame[t].wakers}
    /\ UNCHANGED <<ui, lk, iface, now, timer_id, timers, sources, vacant, poller, last,
                   panicked, dereg, observed, queue, tstate, future, bpc,
                   did_work, fails>>

\* lines 233-246 for one event: the source after it, and the wakers taken
apply_event(srcs, ev) ==
    IF ev.key \notin DOMAIN srcs THEN [sources |-> srcs, wakers |-> <<>>]
    ELSE LET s0 == srcs[ev.key]
             s1 == IF ev.readable
                   THEN [s0 EXCEPT !.read_ready = TRUE, !.read_waker = NoWaker]
                   ELSE s0
             s2 == IF ev.writable
                   THEN [s1 EXCEPT !.write_ready = TRUE, !.write_waker = NoWaker]
                   ELSE s1
             rw == IF ev.readable /\ s0.read_waker # NoWaker
                   THEN <<IoWaker(s0.read_waker, "r", ev.key)>> ELSE <<>>
             ww == IF ev.writable /\ s0.write_waker # NoWaker
                   THEN <<IoWaker(s0.write_waker, "w", ev.key)>> ELSE <<>>
         IN [sources |-> [srcs EXCEPT ![ev.key] = s2], wakers |-> rw \o ww]

\* lines 232-247: the event list in order
RECURSIVE process_events(_, _)
process_events(srcs, evs) ==
    IF evs = <<>> THEN [sources |-> srcs, wakers |-> <<>>]
    ELSE LET one == apply_event(srcs, Head(evs))
             rest == process_events(one.sources, Tail(evs))
         IN [sources |-> rest.sources, wakers |-> one.wakers \o rest.wakers]

\* history: a latch set by this event list counts as observed for the slot's
\* source unless the slot was deregistered after the list was fetched
Observe(t, obs) ==
    [k \in DOMAIN obs |->
        [r |-> IF \E i \in DOMAIN frame[t].events :
                     frame[t].events[i].key = k /\ frame[t].events[i].readable
               THEN k \notin dereg[t] ELSE obs[k].r,
         w |-> IF \E i \in DOMAIN frame[t].events :
                     frame[t].events[i].key = k /\ frame[t].events[i].writable
               THEN k \notin dereg[t] ELSE obs[k].w]]

\* Fault of step 4: the wakers of the events go before the ones already held
ReactProcessEventsFirst(t) ==
    /\ frame[t].pc = "polled"
    /\ LET p == process_events(sources, frame[t].events) IN
         /\ sources' = p.sources
         /\ frame' = [frame EXCEPT ![t].pc = "waking",
                                   ![t].wakers = p.wakers \o frame[t].wakers,
                                   ![t].events = <<>>]
    /\ observed' = [k \in DOMAIN observed |->
                      IF k \in DOMAIN sources THEN Observe(t, observed)[k]
                      ELSE observed[k]]
    /\ dereg' = [dereg EXCEPT ![t] = {}]
    /\ UNCHANGED <<ui, lk, iface, now, timer_id, timers, vacant, poller, last, panicked,
                   cancelled, queue, tstate, future, bpc, did_work, fails>>

\* react step 4, lines 230-248, under the sources lock
ReactProcess(t) ==
    /\ frame[t].pc = "polled"
    /\ LET p == process_events(sources, frame[t].events) IN
         /\ sources' = p.sources
         /\ frame' = [frame EXCEPT ![t].pc = "waking",
                                   ![t].wakers = frame[t].wakers \o p.wakers,
                                   ![t].events = <<>>]
    /\ observed' = [k \in DOMAIN observed |->
                      IF k \in DOMAIN sources THEN Observe(t, observed)[k]
                      ELSE observed[k]]
    /\ dereg' = [dereg EXCEPT ![t] = {}]
    /\ UNCHANGED <<ui, lk, iface, now, timer_id, timers, vacant, poller, last, panicked,
                   cancelled, queue, tstate, future, bpc, did_work, fails>>

\* react step 5, lines 251-253: one waker.wake()
ReactWake(t) ==
    /\ frame[t].pc = "waking"
    /\ frame[t].wakers # <<>>
    /\ LET wk == Head(frame[t].wakers)
           s == schedule(queue, tstate, wk.w)
       IN /\ queue' = s.queue
          /\ tstate' = s.tstate
          /\ frame' = [frame EXCEPT ![t].wakers = Tail(frame[t].wakers),
                                    ![t].woken = Append(frame[t].woken, wk)]
          /\ cancelled' = IF wk.src = "timer" THEN cancelled \ {wk.h} ELSE cancelled
    /\ UNCHANGED <<ui, lk, iface, now, timer_id, timers, sources, vacant, poller, last,
                   panicked, dereg, observed, future, bpc, did_work, fails>>

\* line 255: Ok(())
ReactReturn(t) ==
    /\ frame[t].pc = "waking"
    /\ frame[t].wakers = <<>>
    /\ frame' = [frame EXCEPT ![t] = [IdleFrame EXCEPT !.res = "Ok"]]
    /\ UNCHANGED <<ui, lk, iface, now, timer_id, timers, sources, vacant, poller, last,
                   panicked, cancelled, dereg, observed, queue, tstate, future,
                   bpc, did_work, fails>>

\* The steps of a react call in progress on thread t, but for the wait's failure
ReactStep(t) ==
    \/ ReactDrain(t)
    \/ ReactLockEvents(t)
    \/ ReactWaitOk(t)
    \/ ReactProcess(t)
    \/ ReactWake(t)
    \/ ReactReturn(t)

\* ------------------------------------------------------ reactor locks
\* The three mutexes of Reactor (lines 39-45) and the calls that take them,
\* without the data they guard: each call is the sequence of lock, unlock
\* (the guard is dropped), poller call and waker invocation it makes, and its
\* branches are chosen when the call is made.
LockThreads == {1, 2}

Locks == {"sources", "timers", "events"}

Lock(l) == <<"lock", l>>

Unlock(l) == <<"unlock", l>>

PollerCall(c) == <<"poller", c>>

Wake == <<"wake", "">>

\* A stored waker is dropped: replaced, or removed with its entry
DropWaker == <<"drop", "">>

\* io_register: lines 64-78
io_register_steps == <<Lock("sources"), Unlock("sources")>>

\* io_deregister: lines 81-92; delete only if the source was registered; the
\* removed source goes out of scope, with its wakers, before the guard does
io_deregister_steps(registered) ==
    <<Lock("sources")>>
    \o (IF registered THEN <<PollerCall("delete")>> ELSE <<>>)
    \o <<DropWaker, Unlock("sources")>>

\* update_interest: lines 128-146, called with the caller's guard alive
update_interest_steps(registered) ==
    IF registered THEN <<PollerCall("modify")>> ELSE <<PollerCall("add")>>

\* io_poll_readable / io_poll_writable: lines 96-125; storing the waker
\* (lines 106, 121) drops the one stored before
io_poll_steps(ready, registered) ==
    <<Lock("sources")>>
    \o (IF ready THEN <<>> ELSE <<DropWaker>> \o update_interest_steps(registered))
    \o <<Unlock("sources")>>

\* timer_create: lines 152-159
timer_create_steps == <<Lock("timers"), Unlock("timers")>>

\* timer_cancel: lines 162-167; heap.remove drops the stored waker
timer_cancel_steps == <<Lock("timers"), DropWaker, Unlock("timers")>>

\* timer_poll: lines 170-186; heap.insert (line 184) drops the waker it replaces
timer_poll_steps(pending) ==
    <<Lock("timers")>>
    \o (IF pending THEN <<DropWaker>> ELSE <<>>)
    \o <<Unlock("timers")>>

\* Fault of react: the timers guard lives to the end of the function
react_steps_keeps_timers(ok) ==
    <<Lock("timers"), Lock("events"), PollerCall("wait"), Unlock("events")>>
    \o (IF ok THEN <<Lock("sources"), Unlock("sources"), Wake>> ELSE <<>>)
    \o <<Unlock("timers")>>

\* Fault of react: the wakers are invoked inside the block of step 4
react_steps_wake_locked(ok) ==
    <<Lock("timers"), Unlock("timers"),
      Lock("events"), PollerCall("wait"), Unlock("events")>>
    \o (IF ok THEN <<Lock("sources"), Wake, Unlock("sources")>> ELSE <<>>)

\* react: lines 191-256. Step 1 is a block under the timers lock (195-209),
\* step 3 a block under the events lock around wait (219-227), whose ? leaves
\* the function when wait fails, step 4 a block under the sources lock
\* (230-248), step 5 the loop over the collected wakers (251-253).
react_steps(ok) ==
    <<Lock("timers"), Unlock("timers"),
      Lock("events"), PollerCall("wait"), Unlock("events")>>
    \o (IF ok THEN <<Lock("sources"), Unlock("sources"), Wake>> ELSE <<>>)

Call(op, steps) == [op |-> op, steps |-> steps]

\* The calls other than react, with their branches
ReactorCalls ==
    {Call("io_register", io_register_steps)}
    \cup {Call("io_deregister", io_deregister_steps(r)) : r \in BOOLEAN}
    \cup {Call(op, io_poll_steps(ready, r)) :
            op \in {"io_poll_readable", "io_poll_writable"}, ready, r \in BOOLEAN}
    \cup {Call("timer_create", timer_create_steps),
          Call("timer_cancel", timer_cancel_steps)}
    \cup {Call("timer_poll", timer_poll_steps(pending)) : pending \in BOOLEAN}

ReactCalls == {Call("react", react_steps(ok)) : ok \in BOOLEAN}

\* No thread is inside the reactor
NoCalls == [t \in LockThreads |-> [stack |-> <<>>, held |-> {}]]

\* The innermost call of thread t and the step it is at
Top(t) == lk[t].stack[Len(lk[t].stack)]

At(t) == IF lk[t].stack = <<>> THEN <<"none", "">> ELSE Top(t).steps[Top(t).pc]

\* The stack of t after the innermost call has made its step: a call that has
\* made its last step returns
Advance(t) ==
    LET n == Len(lk[t].stack) IN
    IF Top(t).pc = Len(Top(t).steps) THEN SubSeq(lk[t].stack, 1, n - 1)
    ELSE [lk[t].stack EXCEPT ![n].pc = @ + 1]

LockFrame ==
    UNCHANGED <<ui, now, timer_id, timers, sources, vacant, poller, frame, last,
                panicked, cancelled, dereg, observed, queue, tstate, future,
                bpc, did_work, fails, iface>>

\* A thread calls into the reactor; wakers: how many wakers a react collects
Enter(t, call, wakers) ==
    /\ lk[t].stack = <<>>
    /\ lk' = [lk EXCEPT ![t].stack =
                <<[op |-> call.op, steps |-> call.steps, pc |-> 1, n |-> wakers]>>]
    /\ LockFrame

\* Mutex::lock: the thread goes on once no thread holds the lock; a thread
\* that holds it itself never does
Acquire(t) ==
    /\ At(t)[1] = "lock"
    /\ \A u \in LockThreads : At(t)[2] \notin lk[u].held
    /\ lk' = [lk EXCEPT ![t].held = @ \cup {At(t)[2]}, ![t].stack = Advance(t)]
    /\ LockFrame

\* The guard goes out of scope
Release(t) ==
    /\ At(t)[1] = "unlock"
    /\ lk' = [lk EXCEPT ![t].held = @ \ {At(t)[2]}, ![t].stack = Advance(t)]
    /\ LockFrame

\* poller.add, modify, delete or wait returns
PollerReturn(t) ==
    /\ At(t)[1] = "poller"
    /\ lk' = [lk EXCEPT ![t].stack = Advance(t)]
    /\ LockFrame

\* A waker is dropped. The wakers of the executor's tasks are async-task's:
\* dropping the last one of an unfinished task schedules the task (executor.rs
\* lines 27-29), so that the executor drops its future; no reactor lock is
\* taken.
WakerDrop(t) ==
    /\ At(t)[1] = "drop"
    /\ lk' = [lk EXCEPT ![t].stack = Advance(t)]
    /\ LockFrame

\* waker.wake() of a task's waker: schedule (executor.rs lines 27-29) pushes
\* onto the ConcurrentQueue, which takes no lock
WakeSchedule(t) ==
    /\ At(t)[1] = "wake"
    /\ Top(t).n > 0
    /\ lk' = [lk EXCEPT ![t].stack[Len(lk[t].stack)].n = @ - 1]
    /\ LockFrame

\* waker.wake() of a waker that calls back into the reactor on this thread
WakeCallback(t, call) ==
    /\ At(t)[1] = "wake"
    /\ Top(t).n > 0
    /\ lk' = [lk EXCEPT ![t].stack =
                Append([@ EXCEPT ![Len(@)].n = @ - 1],
                       [op |-> call.op, steps |-> call.steps, pc |-> 1, n |-> 0])]
    /\ LockFrame

\* The loop of lines 251-253 is over
WakeDone(t) ==
    /\ At(t)[1] = "wake"
    /\ Top(t).n = 0
    /\ lk' = [lk EXCEPT ![t].stack = Advance(t)]
    /\ LockFrame

\* ---------------------------------------------------------- initial state
\* reactor::get (lines 46-57) and executor::get (lines 18-22)
\* TUI::new: tui.rs lines 107-125
NewTui == [previous_lines |-> <<>>, previous_width |-> 0, cursor_row |-> 0,
           hardware_cursor_row |-> 0, rendered |-> FALSE]

\* Option<usize>: None as the empty sequence, Some(i) as the one-element one
NoFocus == <<>>

Some(i) == <<i>>

\* TUI::new, lines 107-125: no focus, no overlays. hidden holds the
\* Rc<Cell<bool>> of every overlay shown so far, by the order of creation
\* did is for the record: the last call on the TUI, the entry it popped
\* and the focus before it
\* run: pc is its position, ev the event of the iteration, ctq and userq
\* the two channels' queues, ext the senders handed out and alive, task the
\* bridging task; sent, delivered and log are for the record: the events
\* sent so far, the components the key of the iteration was forwarded to, and
\* the steps of the iteration
NewApp == [focused |-> NoFocus, overlays |-> <<>>, hidden |-> <<>>,
           did |-> [op |-> "new", popped |-> <<>>, before |-> NoFocus],
           should_quit |-> FALSE, pc |-> "idle", ev |-> "none",
           ctq |-> <<>>, userq |-> <<>>, ext |-> [ct |-> 0, user |-> 0],
           task |-> "none", sent |-> 0, delivered |-> <<>>, log |-> <<>>]

\* No SelectList is constructed yet; key is for the record: the last input
NoList == [made |-> FALSE, items |-> <<>>, max_visible |-> 1, selected |-> 0,
           scroll_offset |-> 0, filter |-> <<>>, filtered_indices |-> <<>>,
           key |-> "none", fired |-> "none"]

\* Input::new, lines 35-44: the buffer as its characters; op is for the
\* record: the last call, and panic whether a call panicked
Input_new == [buffer |-> <<>>, cursor |-> 0, focused |-> TRUE, scroll_offset |-> 0,
              op |-> <<"new", FALSE>>, panic |-> FALSE]

\* No string was given to strip_ansi yet
NoText == [given |-> FALSE, s |-> <<>>, stripped |-> <<>>, again |-> <<>>,
           width |-> 0, width_stripped |-> 0, control_width |-> 0]

\* The width the terminal starts with
MockWidth == MaxWidth

\* A row of the model terminal that shows nothing
Blank == <<>>

Init ==
    /\ now = 0
    /\ timer_id = 0
    /\ timers = [heap |-> <<>>, deadlines |-> <<>>]
    /\ sources = <<>>
    /\ vacant = <<>>
    /\ poller = <<>>
    /\ frame = [t \in Threads |-> IdleFrame]
    /\ last = NoCall
    /\ panicked = FALSE
    /\ cancelled = {}
    /\ dereg = [t \in Threads |-> {}]
    /\ observed = [k \in 0 .. MaxSlots - 1 |-> [r |-> FALSE, w |-> FALSE]]
    /\ queue = <<>>
    /\ tstate = [k \in Tasks |-> "none"]
    /\ future = [k \in Tasks |-> [kind |-> "none", timer |-> 0, deadline |-> 0]]
    /\ bpc = "new"
    /\ did_work = FALSE
    /\ fails = 0
    /\ iface = [timer |-> <<>>, sock |-> <<>>, open |-> {}]
    /\ tui = NewTui
    /\ term = [width |-> MockWidth, calls |-> <<>>]
    /\ screen = [rows |-> <<Blank>>, row |-> 0, col |-> 0]
    /\ app = NewApp
    /\ sl = NoList
    /\ inp = Input_new
    /\ txt = NoText
    /\ lk = NoCalls

\* The timeouts callers pass to react
Timeouts == {0, ShortTimeout}

\* Timers and react, called from any thread
NextTimer ==
    \/ \E d \in 0 .. MaxDur : TimerCreate(d)
    \/ \E id \in TimerIds : TimerCancel(id)
    \/ \E id \in TimerIds, w \in TestWakers : TimerPoll(id, w)
    \/ \E t \in Threads, timeout \in Timeouts : ReactBegin(t, timeout)
    \/ \E t \in Threads : ReactStep(t)
    \/ \E t \in Threads : ReactWaitErr(t)
    \/ Tick

SpecTimer == Init /\ [][NextTimer]_vars

\* The timeouts of a react call that may block: none (react(None)), and the
\* effectively infinite one tau-iface passes for None (lib.rs line 94), which
\* is longer than the clock runs
WaitTimeouts == {0, ShortTimeout, MaxTime + 1, NoTimeout}

\* line 222 with its timing: poller.wait is entered with the effective timeout
\* computed at line 212 and returns no later than that timeout allows
ReactWaitBegin(t) ==
    /\ frame[t].pc = "drained"
    /\ \A u \in Threads : frame[u].pc # "waiting"
    /\ frame' = [frame EXCEPT ![t].pc = "waiting",
                              ![t].until = IF frame[t].eff = NoTimeout THEN NoTimeout
                                           ELSE now + frame[t].eff]
    /\ UNCHANGED <<ui, lk, iface, now, timer_id, timers, sources, vacant, poller, last,
                   panicked, cancelled, dereg, observed, queue, tstate, future,
                   bpc, did_work, fails>>

\* The clock moves on while react may be inside wait: steps 1 and 2 take no
\* time, and a wait with a timeout has returned when the timeout is over
WaitTick ==
    /\ \A t \in Threads :
          /\ frame[t].pc \notin {"entered", "drained"}
          /\ frame[t].pc = "waiting" /\ frame[t].until # NoTimeout =>
                now < frame[t].until
    /\ Tick

\* Reactor calls on several threads
NextLocks ==
    \/ \E t \in LockThreads, call \in ReactorCalls : Enter(t, call, 0)
    \/ \E t \in LockThreads, call \in ReactCalls, wakers \in 0 .. MaxWakers :
          Enter(t, call, wakers)
    \/ \E t \in LockThreads : Acquire(t)
    \/ \E t \in LockThreads : Release(t)
    \/ \E t \in LockThreads : PollerReturn(t)
    \/ \E t \in LockThreads : WakerDrop(t)
    \/ \E t \in LockThreads : WakeSchedule(t)
    \/ \E t \in LockThreads, call \in ReactorCalls : WakeCallback(t, call)
    \/ \E t \in LockThreads : WakeDone(t)

SpecLocks == Init /\ [][NextLocks]_vars

\* ------------------------------------------------------ try_tick, block_on
\* Runnable::run (line 48) on the futures of the executor's tests: an async
\* block that finishes at its first poll ("imm"), or one that awaits a
\* TimerFuture (lines 113-128): poll is timer_poll with the task's waker, and
\* the finished future is dropped, which calls timer_cancel.
run(task) ==
    IF future[task].kind = "timer"
    THEN LET r == timer_poll(timers, future[task].timer, task, now) IN
         IF r.res = "Ready"
         THEN [timers |-> timer_cancel(r.ts, future[task].timer),
               state |-> "done", last |-> NoCall]
         ELSE [timers |-> r.ts, state |-> "idle",
               last |-> Ret("timer_poll", future[task].timer, r.res)]
    ELSE [timers |-> timers, state |-> "done", last |-> last]

\* spawn: lines 34-42
Spawn(task) ==
    /\ tstate[task] = "none"
    /\ future' = [future EXCEPT ![task] = [kind |-> "imm", timer |-> 0, deadline |-> 0]]
    /\ tstate' = [tstate EXCEPT ![task] = "scheduled"]
    /\ queue' = Append(queue, task)
    /\ UNCHANGED <<ui, lk, iface, now, timer_id, timers, sources, vacant, poller, frame, last,
                   panicked, cancelled, dereg, observed, bpc, did_work, fails>>

\* Fault of try_tick: the runnable pushed last is the one popped and run
try_tick_newest ==
    IF queue = <<>>
    THEN [queue |-> queue, timers |-> timers, tstate |-> tstate, ret |-> "false"]
    ELSE LET task == queue[Len(queue)]
             r == run(task)
         IN [queue |-> SubSeq(queue, 1, Len(queue) - 1), timers |-> r.timers,
             tstate |-> [tstate EXCEPT ![task] = r.state], ret |-> "true"]

\* try_tick, lines 45-53: the queue, the timer tables and the task states
\* after it, and what it returns
try_tick ==
    IF queue = <<>>
    THEN [queue |-> queue, timers |-> timers, tstate |-> tstate, ret |-> "false"]
    ELSE LET task == Head(queue)
             r == run(task)
         IN [queue |-> Tail(queue), timers |-> r.timers,
             tstate |-> [tstate EXCEPT ![task] = r.state], ret |-> "true"]

\* try_tick called by a thread other than block_on's
TryTick ==
    /\ ~panicked
    /\ LET r == try_tick
       IN /\ queue' = r.queue
          /\ timers' = r.timers
          /\ tstate' = r.tstate
          /\ last' = Ret("try_tick", 0, r.ret)
    /\ UNCHANGED <<ui, lk, iface, now, timer_id, sources, vacant, poller, frame, panicked,
                   cancelled, dereg, observed, future, bpc, did_work, fails>>

\* block_on, lines 57-60: the future is an async block, or awaits the timer
\* created before the call (lines 239-247)
BlockOnStart(kind) ==
    /\ bpc = "new"
    /\ kind = "timer" => timer_id > 0
    /\ future' = [future EXCEPT ![MainTask] =
                    IF kind = "timer"
                    THEN [kind |-> kind, timer |-> timer_id - 1,
                          deadline |-> timers.deadlines[timer_id - 1]]
                    ELSE [kind |-> kind, timer |-> 0, deadline |-> 0]]
    /\ tstate' = [tstate EXCEPT ![MainTask] = "scheduled"]
    /\ queue' = Append(queue, MainTask)
    /\ bpc' = "loop"
    /\ UNCHANGED <<ui, lk, iface, now, timer_id, timers, sources, vacant, poller, frame, last,
                   panicked, cancelled, dereg, observed, did_work, fails>>

\* Fault of the top of the loop: a finished task does not end it
BlockOnCheckNoBreak ==
    /\ bpc = "loop"
    /\ bpc' = "tick" /\ did_work' = FALSE
    /\ UNCHANGED <<ui, lk, iface, now, timer_id, timers, sources, vacant, poller, frame, last,
                   panicked, cancelled, dereg, observed, queue, tstate, future,
                   fails>>

\* lines 63-68: the top of the loop
BlockOnCheck ==
    /\ bpc = "loop"
    /\ IF tstate[MainTask] = "done"
       THEN bpc' = "done" /\ UNCHANGED did_work
       ELSE bpc' = "tick" /\ did_work' = FALSE
    /\ UNCHANGED <<ui, lk, iface, now, timer_id, timers, sources, vacant, poller, frame, last,
                   panicked, cancelled, dereg, observed, queue, tstate, future,
                   fails>>

\* lines 69-75 with try_tick (lines 45-53): one turn of the while loop
BlockOnTick ==
    /\ bpc = "tick"
    /\ LET r == try_tick
       IN /\ queue' = r.queue
          /\ timers' = r.timers
          /\ tstate' = r.tstate
          /\ last' = Ret("try_tick", 0, r.ret)
          /\ IF r.ret = "false"
             THEN bpc' = "react" /\ UNCHANGED did_work
             ELSE /\ did_work' = TRUE
                  /\ bpc' = IF r.tstate[MainTask] = "done" THEN "done" ELSE "tick"
    /\ UNCHANGED <<ui, lk, iface, now, timer_id, sources, vacant, poller, frame, panicked,
                   cancelled, dereg, observed, future, fails>>

\* Fault of lines 80-84: the short timeout whether or not a task ran
BlockOnReactShortTimeout ==
    /\ bpc = "react"
    /\ bpc' = "reacting"
    /\ ~panicked
    /\ frame[Driver].pc = "idle"
    /\ frame' = [frame EXCEPT ![Driver] =
                   [IdleFrame EXCEPT !.pc = "entered", !.now = now,
                                     !.timeout = ShortTimeout]]
    /\ UNCHANGED <<ui, lk, iface, now, timer_id, timers, sources, vacant, poller, last,
                   panicked, cancelled, dereg, observed, queue, tstate, future,
                   did_work, fails>>

\* lines 80-85: react is entered with the timeout did_work chooses
BlockOnReact ==
    /\ bpc = "react"
    /\ bpc' = "reacting"
    /\ ~panicked
    /\ frame[Driver].pc = "idle"
    /\ frame' = [frame EXCEPT ![Driver] =
                   [IdleFrame EXCEPT !.pc = "entered", !.now = now,
                       !.timeout = IF did_work THEN 0 ELSE ShortTimeout]]
    /\ UNCHANGED <<ui, lk, iface, now, timer_id, timers, sources, vacant, poller, last,
                   panicked, cancelled, dereg, observed, queue, tstate, future,
                   did_work, fails>>

\* line 85: let _ = drops what react returned; the loop goes on
BlockOnReactRet ==
    /\ bpc = "reacting"
    /\ frame[Driver].pc = "idle"
    /\ bpc' = "loop"
    /\ UNCHANGED <<ui, lk, iface, now, timer_id, timers, sources, vacant, poller, frame, last,
                   panicked, cancelled, dereg, observed, queue, tstate, future,
                   did_work, fails>>

\* The poller's wait fails, at most MaxFail times
DriverWaitErr ==
    /\ fails < MaxFail
    /\ frame[Driver].pc = "waiting"
    /\ frame' = [frame EXCEPT ![Driver] = [IdleFrame EXCEPT !.res = "Err"]]
    /\ cancelled' = cancelled \
          {frame[Driver].wakers[i].h : i \in DOMAIN frame[Driver].wakers}
    /\ fails' = fails + 1
    /\ UNCHANGED <<ui, lk, iface, now, timer_id, timers, sources, vacant, poller, last,
                   panicked, dereg, observed, queue, tstate, future, bpc,
                   did_work>>

\* The thread inside block_on moves
DriverStep ==
    \/ BlockOnCheck
    \/ BlockOnTick
    \/ BlockOnReact
    \/ ReactStep(Driver)
    \/ BlockOnReactRet

\* One block_on call on the driver thread; other threads spawn tasks
NextBlockOn ==
    \/ \E d \in 0 .. MaxDur :
          bpc = "new" /\ timer_id = 0 /\ now + d <= MaxTime /\ TimerCreate(d)
    \/ \E kind \in {"imm", "timer"} : BlockOnStart(kind)
    \/ \E task \in AuxTasks : Spawn(task)
    \/ TryTick
    \/ DriverStep
    \/ DriverWaitErr
    \/ Tick

SpecBlockOn == Init /\ [][NextBlockOn]_vars

\* The driver thread keeps running and the clock keeps moving
FairBlockOn == SpecBlockOn /\ WF_vars(DriverStep) /\ WF_vars(Tick)

\* IO sources and react, called from any thread
NextIo ==
    \/ \E fd \in Fds : IoRegister(fd)
    \/ \E h \in Handles : IoDeregister(h)
    \/ \E h \in Handles, w \in TestWakers : IoPollReadable(h, w)
    \/ \E h \in Handles, w \in TestWakers : IoPollWritable(h, w)
    \/ \E t \in Threads, timeout \in Timeouts : ReactBegin(t, timeout)
    \/ \E t \in Threads : ReactStep(t)
    \/ \E t \in Threads : ReactWaitErr(t)

SpecIo == Init /\ [][NextIo]_vars

\* Timers and IO sources together under react, called from any thread: the
\* timers are polled with one waker and the sources with another
TimerTestWaker == <<"fn", 1>>

IoTestWaker == <<"fn", 2>>

NextReact ==
    \/ \E d \in 0 .. MaxDur : TimerCreate(d)
    \/ \E id \in TimerIds : TimerPoll(id, TimerTestWaker)
    \/ \E fd \in Fds : IoRegister(fd)
    \/ \E h \in Handles : IoPollReadable(h, IoTestWaker)
    \/ \E h \in Handles : IoPollWritable(h, IoTestWaker)
    \/ \E t \in Threads, timeout \in Timeouts : ReactBegin(t, timeout)
    \/ \E t \in Threads : ReactStep(t)
    \/ Tick

SpecReact == Init /\ [][NextReact]_vars

\* Timers polled on one thread while another is inside react
NextWait ==
    \/ \E d \in 0 .. MaxDur : TimerCreate(d)
    \/ \E id \in TimerIds : TimerPoll(id, TimerTestWaker)
    \/ \E t \in Threads, timeout \in WaitTimeouts : ReactBegin(t, timeout)
    \/ \E t \in Threads : ReactDrain(t)
    \/ \E t \in Threads : ReactWaitBegin(t)
    \/ \E t \in Threads : ReactWaitOk(t)
    \/ \E t \in Threads : ReactProcess(t)
    \/ \E t \in Threads : ReactWake(t)
    \/ \E t \in Threads : ReactReturn(t)
    \/ WaitTick

SpecWait == Init /\ [][NextWait]_vars

\* ------------------------------------------------------ tau-iface: Timer
\* A Timer value (timer.rs lines 19-22) by its reactor handle: fired, and
\* whether the value is still alive
NewTimer == [fired |-> FALSE, live |-> TRUE]

\* tau_rt_timer_poll (ffi.rs lines 67-76): the Poll as a u8
timer_poll_u8(res) == IF res = "Pending" THEN 0 ELSE 1

\* Fault of Drop for Timer: no cancel is issued
drop_never_cancels(tv) == FALSE

\* Drop for Timer, line 63: cancel only a timer that has not fired
drop_cancels(tv) == ~tv.fired

\* Timer::after: timer.rs lines 26-33
Timer_after(d) ==
    /\ ~panicked
    /\ timer_id < MaxTimers
    /\ timer_id' = timer_id + 1
    /\ timers' = timer_create(timers, timer_id, now + d)
    /\ iface' = [iface EXCEPT !.timer = With(iface.timer, timer_id, NewTimer)]
    /\ last' = NoCall
    /\ UNCHANGED <<ui, lk, now, sources, vacant, poller, frame, panicked, cancelled,
                   dereg, observed, queue, tstate, future, bpc, did_work, fails>>

\* Future::poll for Timer: timer.rs lines 39-58. last.op tells whether the
\* reactor was called ("timer_poll") or the value answered by itself.
Timer_poll(o, w) ==
    /\ ~panicked
    /\ o \in DOMAIN iface.timer
    /\ iface.timer[o].live
    /\ LET tv == iface.timer[o] IN
       IF tv.fired
       THEN /\ last' = Ret("Timer.poll", o, "Ready")
            /\ UNCHANGED <<timers, iface>>
       ELSE LET r == timer_poll(timers, o, w, now)
                result == timer_poll_u8(r.res)
            IN /\ timers' = r.ts
               /\ last' = [Ret("timer_poll", o, IF result = 0 THEN "Pending"
                                                ELSE "Ready")
                             EXCEPT !.expired = r.expired]
               /\ iface' = [iface EXCEPT !.timer[o].fired = (result # 0)]
    /\ UNCHANGED <<ui, lk, now, timer_id, sources, vacant, poller, frame, panicked,
                   cancelled, dereg, observed, queue, tstate, future, bpc,
                   did_work, fails>>

\* Drop for Timer: timer.rs lines 61-67. last.op tells whether the reactor
\* was called ("timer_cancel").
Timer_drop(o) ==
    /\ ~panicked
    /\ o \in DOMAIN iface.timer
    /\ iface.timer[o].live
    /\ iface' = [iface EXCEPT !.timer[o].live = FALSE]
    /\ IF drop_cancels(iface.timer[o])
       THEN /\ timers' = timer_cancel(timers, o)
            /\ cancelled' = cancelled \cup ({o} \cap Held)
            /\ last' = Ret("timer_cancel", o, None)
       ELSE /\ last' = Ret("Timer.drop", o, None)
            /\ UNCHANGED <<timers, cancelled>>
    /\ UNCHANGED <<ui, lk, now, timer_id, sources, vacant, poller, frame, panicked,
                   dereg, observed, queue, tstate, future, bpc, did_work, fails>>

\* Timer values under react: created, polled by the task that owns them
\* and dropped
NextTimerValue ==
    \/ \E d \in 0 .. MaxDur : Timer_after(d)
    \/ \E o \in TimerIds : Timer_poll(o, TimerTestWaker)
    \/ \E o \in TimerIds : Timer_drop(o)
    \/ \E t \in Threads, timeout \in Timeouts : ReactBegin(t, timeout)
    \/ \E t \in Threads : ReactStep(t)
    \/ \E t \in Threads : ReactWaitErr(t)
    \/ Tick

SpecTimerValue == Init /\ [][NextTimerValue]_vars

\* ---------------------------------------------------- tau-iface: sockets
\* Fields in declaration order, which is the order drop glue drops them in
TcpStreamFields == <<"async_fd", "fd">>        \* tcp.rs lines 168-171

TcpListenerFields == <<"async_fd", "fd">>      \* tcp.rs lines 290-293

UdpSocketFields == <<"async_fd", "fd">>        \* udp.rs lines 15-18

SocketKinds == {"TcpStream", "TcpListener", "UdpSocket"}

Fields(kind) ==
    IF kind = "TcpStream" THEN TcpStreamFields
    ELSE IF kind = "TcpListener" THEN TcpListenerFields
    ELSE UdpSocketFields

\* The locals of TcpStream::connect that own something, in declaration
\* order: tcp.rs lines 179 and 200
ConnectLocals == <<"owned_fd", "async_fd">>

Reverse(s) == [i \in 1 .. Len(s) |-> s[Len(s) + 1 - i]]

\* Fault of the drop glue: the fields go last one first
drop_fields_reversed(kind) == Reverse(Fields(kind))

\* Drop glue of a socket value: its fields in declaration order
drop_fields(kind) == Fields(kind)

\* Leaving connect's scope by ? drops its locals last one first
drop_locals == Reverse(ConnectLocals)

\* create_socket (tcp.rs lines 145-153) as called by connect (179) and the
\* binds (298, udp.rs 23), and the accepted fd of from_raw_fd (220-221): the
\* OS hands out an fd that is not open. The value under construction is kept
\* as where its constructor stands and the drop glue of its type.
Socket_create(kind, fd) ==
    /\ ~panicked
    /\ fd \notin iface.open
    /\ iface' = [iface EXCEPT !.open = @ \cup {fd},
                              !.sock = With(@, fd,
                                  [pc |-> IF kind = "TcpStream" THEN "connect"
                                          ELSE "bind",
                                   glue |-> drop_fields(kind),
                                   handle |-> 0, todo |-> <<>>])]
    /\ UNCHANGED <<ui, lk, now, timer_id, timers, sources, vacant, poller, frame, last,
                   panicked, cancelled, dereg, observed, queue, tstate, future,
                   bpc, did_work, fails>>

\* An error return before the registration (tcp.rs lines 195, 301, 313, 319,
\* udp.rs 35): owned_fd is the only local and closes the fd
Socket_setup_err(fd) ==
    /\ ~panicked
    /\ fd \in DOMAIN iface.sock
    /\ iface.sock[fd].pc \in {"connect", "bind"}
    /\ iface' = [iface EXCEPT !.sock[fd].pc = "dropping",
                              !.sock[fd].todo = <<"owned_fd">>]
    /\ UNCHANGED <<ui, lk, now, timer_id, timers, sources, vacant, poller, frame, last,
                   panicked, cancelled, dereg, observed, queue, tstate, future,
                   bpc, did_work, fails>>

\* AsyncFd::new (async_fd.rs lines 25-28) at tcp.rs 200, 222, 322 and
\* udp.rs 38. in_progress: connect found result != 0 and goes on to wait
\* for the socket to become writable (tcp.rs 202)
Socket_register(fd, in_progress) ==
    /\ ~panicked
    /\ fd \in DOMAIN iface.sock
    /\ iface.sock[fd].pc \in {"connect", "bind"}
    /\ in_progress => iface.sock[fd].pc = "connect"
    /\ vacant_key < MaxSlots
    /\ sources' = With(sources, vacant_key, NewSource(fd, vacant_key))
    /\ vacant' = IF vacant # <<>> THEN Tail(vacant) ELSE vacant
    /\ observed' = [observed EXCEPT ![vacant_key] = [r |-> FALSE, w |-> FALSE]]
    /\ last' = NoCall
    /\ iface' = [iface EXCEPT !.sock[fd].handle = vacant_key,
                              !.sock[fd].pc = IF in_progress THEN "connecting"
                                              ELSE "live"]
    /\ UNCHANGED <<ui, lk, now, timer_id, timers, poller, frame, panicked, cancelled,
                   dereg, queue, tstate, future, bpc, did_work, fails>>

\* connect waiting for completion, tcp.rs lines 204-206: one poll of
\* async_fd.writable() (async_fd.rs 65-80); once it is Ready,
\* get_socket_error decides between the value and the error return
Connect_writable(fd) ==
    /\ ~panicked
    /\ fd \in DOMAIN iface.sock
    /\ iface.sock[fd].pc = "connecting"
    /\ \E os_ok \in BOOLEAN :
          io_poll("io_poll_writable", "w", iface.sock[fd].handle, IoTestWaker, os_ok)
    /\ IF last'.res = "Ready"
       THEN \E socket_error \in BOOLEAN :
              iface' = IF socket_error
                       THEN [iface EXCEPT !.sock[fd].pc = "dropping",
                                          !.sock[fd].todo = drop_locals]
                       ELSE [iface EXCEPT !.sock[fd].pc = "live"]
       ELSE UNCHANGED iface
    /\ UNCHANGED <<ui, lk, now, timer_id, timers, vacant, frame, cancelled, dereg,
                   queue, tstate, future, bpc, did_work, fails>>

\* A live socket waiting to read, accept or receive: one poll of
\* async_fd.readable() (async_fd.rs lines 44-59)
Socket_readable(fd) ==
    /\ ~panicked
    /\ fd \in DOMAIN iface.sock
    /\ iface.sock[fd].pc = "live"
    /\ \E os_ok \in BOOLEAN :
          io_poll("io_poll_readable", "r", iface.sock[fd].handle, IoTestWaker, os_ok)
    /\ UNCHANGED <<ui, lk, iface, now, timer_id, timers, vacant, frame, cancelled, dereg,
                   queue, tstate, future, bpc, did_work, fails>>

\* A socket value goes out of scope: its drop glue starts
Socket_drop(fd) ==
    /\ ~panicked
    /\ fd \in DOMAIN iface.sock
    /\ iface.sock[fd].pc = "live"
    /\ iface' = [iface EXCEPT !.sock[fd].pc = "dropping",
                              !.sock[fd].todo = iface.sock[fd].glue]
    /\ UNCHANGED <<ui, lk, now, timer_id, timers, sources, vacant, poller, frame, last,
                   panicked, cancelled, dereg, observed, queue, tstate, future,
                   bpc, did_work, fails>>

\* The next field or local is dropped. An AsyncFd deregisters (async_fd.rs
\* lines 83-87, reactor.rs 81-92; last.res tells whether the poller held
\* the fd); an OwnedFd closes the fd, and the value is gone with its last
\* part.
Drop_step(fd) ==
    /\ ~panicked
    /\ fd \in DOMAIN iface.sock
    /\ iface.sock[fd].pc = "dropping"
    /\ LET sk == iface.sock[fd]
           h == sk.handle
           rest == Tail(sk.todo)
       IN IF Head(sk.todo) = "async_fd"
          THEN /\ iface' = [iface EXCEPT !.sock[fd].todo = rest]
               /\ IF h \in DOMAIN sources
                  THEN /\ sources' = Without(sources, h)
                       /\ vacant' = <<h>> \o vacant
                       /\ poller' = IF sources[h].registered
                                    THEN Without(poller, sources[h].raw_fd)
                                    ELSE poller
                       /\ dereg' = [t \in Threads |->
                                      IF frame[t].pc = "polled"
                                      THEN dereg[t] \cup {h} ELSE dereg[t]]
                       /\ last' = Ret("io_deregister", h,
                                      IF sources[h].registered
                                         /\ sources[h].raw_fd \in DOMAIN poller
                                      THEN "deleted" ELSE None)
                  ELSE /\ last' = Ret("io_deregister", h, None)
                       /\ UNCHANGED <<sources, vacant, poller, dereg>>
          ELSE /\ iface' = [iface EXCEPT !.open = @ \ {fd},
                                         !.sock = IF rest = <<>>
                                                  THEN Without(@, fd)
                                                  ELSE [@ EXCEPT ![fd].todo = rest]]
               /\ last' = Ret("close", fd, None)
               /\ UNCHANGED <<sources, vacant, poller, dereg>>
    /\ UNCHANGED <<ui, lk, now, timer_id, timers, frame, panicked, cancelled, observed,
                   queue, tstate, future, bpc, did_work, fails>>

\* Sockets created, used and dropped while a thread runs react
NextSocket ==
    \/ \E kind \in SocketKinds, fd \in Fds : Socket_create(kind, fd)
    \/ \E fd \in Fds : Socket_setup_err(fd)
    \/ \E fd \in Fds, in_progress \in BOOLEAN : Socket_register(fd, in_progress)
    \/ \E fd \in Fds : Connect_writable(fd)
    \/ \E fd \in Fds : Socket_readable(fd)
    \/ \E fd \in Fds : Socket_drop(fd)
    \/ \E fd \in Fds : Drop_step(fd)
    \/ \E t \in Threads, timeout \in Timeouts : ReactBegin(t, timeout)
    \/ \E t \in Threads : ReactStep(t)

SpecSocket == Init /\ [][NextSocket]_vars

\* ---------------------------------------------------------------- tau-tui
\* A line is a sequence of characters, here the empty line of a Spacer or
\* some text; a frame is what the component tree and the overlays render to
\* (tui.rs lines 310-349)
LineSet == {<<>>, <<"a", "b">>}

Frames == UNION {[1 .. n -> LineSet] : n \in 0 .. MaxLines}

Widths == 0 .. MaxWidth

\* What render puts into its buffer, piece by piece: text and sequences
Tok(k, n, s) == [k |-> k, n |-> n, s |-> s]

Text(line) == Tok("text", 0, line)

SgrReset == Tok("ESC[0m", 0, <<>>)

CR == Tok("CR", 0, <<>>)

LF == Tok("LF", 0, <<>>)

EraseLine == Tok("ESC[2K", 0, <<>>)

CursorUp(n) == Tok("ESC[nA", n, <<>>)

CursorDown(n) == Tok("ESC[nB", n, <<>>)

ClearScreen == Tok("ESC[3J ESC[2J ESC[H", 0, <<>>)

SyncBegin == Tok("ESC[?2026h", 0, <<>>)

SyncEnd == Tok("ESC[?2026l", 0, <<>>)

\* push_str(line): an empty line adds no bytes
push_str(line) == IF line = <<>> THEN <<>> ELSE <<Text(line)>>

\* lines 357-358 and 365-366
write_line(line) == push_str(line) \o <<SgrReset, CR, LF>>

RECURSIVE write_lines(_)
write_lines(lines) ==
    IF lines = <<>> THEN <<>>
    ELSE write_line(Head(lines)) \o write_lines(Tail(lines))

\* Vec::get at a 0-based index: Some(line) as <<line>>, None as <<>>
get(v, i) == IF i < Len(v) THEN <<v[i + 1]>> ELSE <<>>

\* lines 372-387: the indices where old and new differ
changed(old, lines) ==
    {i \in 0 .. (IF Len(old) >= Len(lines) THEN Len(old) ELSE Len(lines)) - 1 :
        get(old, i) # get(lines, i)}

first_changed(old, lines) ==
    CHOOSE i \in changed(old, lines) : \A j \in changed(old, lines) : i <= j

\* Fault of the scan: everything from the first change to the end counts
last_changed_to_end(old, lines) ==
    (IF Len(old) >= Len(lines) THEN Len(old) ELSE Len(lines)) - 1

last_changed(old, lines) ==
    CHOOSE i \in changed(old, lines) : \A j \in changed(old, lines) : j <= i

\* lines 391-395
move_cursor(hardware_cursor_row, first) ==
    IF hardware_cursor_row > first
    THEN <<CursorUp(hardware_cursor_row - first)>>
    ELSE IF hardware_cursor_row < first
         THEN <<CursorDown(first - hardware_cursor_row)>>
         ELSE <<>>

\* Fault of the rewrite: the old line is not erased first
rewrite_line_no_erase(lines, i) ==
    IF i < Len(lines) THEN write_line(lines[i + 1]) ELSE <<CR, LF>>

\* lines 400-407
rewrite_line(lines, i) ==
    <<EraseLine>> \o (IF i < Len(lines) THEN write_line(lines[i + 1])
                      ELSE <<CR, LF>>)

RECURSIVE rewrite(_, _, _)
rewrite(lines, i, last_i) ==
    IF i > last_i THEN <<>>
    ELSE rewrite_line(lines, i) \o rewrite(lines, i + 1, last_i)

\* Fault of the cursor bookkeeping: the cursor stays past the content
park_past_end(cursor_pos, len) == [out |-> <<>>, hw |-> cursor_pos]

\* lines 411-419
park(cursor_pos, len) ==
    IF cursor_pos > len
    THEN [out |-> <<CursorUp(cursor_pos - len)>>, hw |-> len]
    ELSE [out |-> <<>>, hw |-> cursor_pos]

\* lines 351-422: the buffer and the new hardware_cursor_row
render_buffer(t, width, lines) ==
    IF t.previous_width = 0
    THEN [buffer |-> write_lines(lines), hw |-> Len(lines)]
    ELSE IF width # t.previous_width
    THEN [buffer |-> <<ClearScreen>> \o write_lines(lines), hw |-> Len(lines)]
    ELSE IF changed(t.previous_lines, lines) = {}
    THEN [buffer |-> <<>>, hw |-> t.hardware_cursor_row]
    ELSE LET first == first_changed(t.previous_lines, lines)
             last_i == last_changed(t.previous_lines, lines)
             p == park(last_i + 1, Len(lines))
         IN [buffer |-> move_cursor(t.hardware_cursor_row, first) \o <<CR>>
                        \o rewrite(lines, first, last_i) \o p.out,
             hw |-> p.hw]

\* Fault of the output: the buffer is written as it is
terminal_calls_bare(buffer) ==
    IF buffer # <<>> THEN <<<<"write", buffer>>, <<"flush", <<>>>>>> ELSE <<>>

\* lines 424-432: the calls render makes on the terminal
terminal_calls(buffer) ==
    IF buffer # <<>>
    THEN <<<<"write", <<SyncBegin>> \o buffer \o <<SyncEnd>>>>, <<"flush", <<>>>>>>
    ELSE <<>>

\* render, lines 309-438, on the frame the components render to
render(lines) ==
    LET r == render_buffer(tui, term.width, lines)
    IN [tui |-> [previous_lines |-> lines, previous_width |-> term.width,
                 cursor_row |-> Len(lines), hardware_cursor_row |-> r.hw,
                 rendered |-> TRUE],
        calls |-> terminal_calls(r.buffer)]

\* ------------------------------------------------------ the model terminal
\* Text written at the cursor replaces what the row shows there
overwrite(r, col, s) ==
    [i \in 1 .. (IF Len(r) >= col + Len(s) THEN Len(r) ELSE col + Len(s)) |->
        IF i > col /\ i <= col + Len(s) THEN s[i - col]
        ELSE IF i <= Len(r) THEN r[i] ELSE " "]

\* One piece of output on the model terminal. Rows and columns count from 0;
\* a line feed on the last row opens a new one, cursor down stops there.
Interpret(sc, tok) ==
    IF tok.k = "text"
    THEN [sc EXCEPT !.rows[sc.row + 1] = overwrite(@, sc.col, tok.s),
                    !.col = @ + Len(tok.s)]
    ELSE IF tok.k = "CR" THEN [sc EXCEPT !.col = 0]
    ELSE IF tok.k = "LF"
    THEN [sc EXCEPT !.row = @ + 1,
                    !.rows = IF sc.row + 1 >= Len(@) THEN Append(@, Blank) ELSE @]
    ELSE IF tok.k = "ESC[2K" THEN [sc EXCEPT !.rows[sc.row + 1] = Blank]
    ELSE IF tok.k = "ESC[nA"
    THEN [sc EXCEPT !.row = IF @ >= tok.n THEN @ - tok.n ELSE 0]
    ELSE IF tok.k = "ESC[nB"
    THEN [sc EXCEPT !.row = Min(@ + tok.n, Len(sc.rows) - 1)]
    ELSE IF tok.k = "ESC[3J ESC[2J ESC[H"
    THEN [rows |-> <<Blank>>, row |-> 0, col |-> 0]
    ELSE sc

RECURSIVE Replay(_, _)
Replay(sc, toks) ==
    IF toks = <<>> THEN sc ELSE Replay(Interpret(sc, Head(toks)), Tail(toks))

\* The bytes of the write calls, in order
RECURSIVE written(_)
written(calls) ==
    IF calls = <<>> THEN <<>>
    ELSE (IF Head(calls)[1] = "write" THEN Head(calls)[2] ELSE <<>>)
         \o written(Tail(calls))

\* ------------------------------------------------------------ TUI actions
\* render when the components render to lines
Render(lines) ==
    /\ LET r == render(lines)
       IN /\ tui' = r.tui
          /\ term' = [term EXCEPT !.calls = r.calls]
    /\ UNCHANGED <<screen, app, sl, inp, txt, rt>>

\* render, with what it wrote replayed on the model terminal
RenderShown(lines) ==
    /\ LET r == render(lines)
       IN /\ tui' = r.tui
          /\ term' = [term EXCEPT !.calls = r.calls]
          /\ screen' = Replay(screen, written(r.calls))
    /\ UNCHANGED <<app, sl, inp, txt, rt>>

\* The terminal is resized
Resize(w) ==
    /\ w # term.width
    /\ term' = [term EXCEPT !.width = w]
    /\ UNCHANGED <<tui, screen, app, sl, inp, txt, rt>>

\* Renders between content, overlay and terminal size changes
NextTui ==
    \/ \E lines \in Frames : Render(lines)
    \/ \E w \in Widths : Resize(w)

SpecTui == Init /\ [][NextTui]_vars

\* Renders at one width, shown on the model terminal
NextShown == \E lines \in Frames : RenderShown(lines)

SpecShown == Init /\ [][NextShown]_vars

\* Fault of stop: the terminal is stopped before the cursor is moved
stop_calls_stop_first(t) ==
    <<<<"stop", <<>>>>>>
    \o (IF t.hardware_cursor_row < t.cursor_row
        THEN <<<<"write", <<CursorDown(t.cursor_row - t.hardware_cursor_row)>>>>,
               <<"flush", <<>>>>>>
        ELSE <<>>)

\* stop, lines 202-210: the calls it makes on the terminal
stop_calls(t) ==
    (IF t.hardware_cursor_row < t.cursor_row
     THEN <<<<"write", <<CursorDown(t.cursor_row - t.hardware_cursor_row)>>>>,
            <<"flush", <<>>>>>>
     ELSE <<>>)
    \o <<<<"stop", <<>>>>>>

\* stop: lines 202-210
Stop ==
    /\ tui' = IF tui.hardware_cursor_row < tui.cursor_row
              THEN [tui EXCEPT !.hardware_cursor_row = tui.cursor_row]
              ELSE tui
    /\ term' = [term EXCEPT !.calls = stop_calls(tui)]
    /\ UNCHANGED <<screen, app, sl, inp, txt, rt>>

\* Renders and stops between content and terminal size changes
NextStop ==
    \/ \E lines \in Frames : Render(lines)
    \/ \E w \in Widths : Resize(w)
    \/ Stop

SpecStop == Init /\ [][NextStop]_vars

\* ------------------------------------------------------ overlays and focus
\* The focus a caller may set: none, a child of root, or an index past them
FocusValues == {NoFocus} \cup {Some(i) : i \in 0 .. MaxChildren}

\* The overlays shown, by OverlayOptions.width and the number of lines the
\* component renders: no width, no lines, or both a width and a line
OverlayShapes == {<<0, 1>>, <<MaxWidth, 0>>, <<MaxWidth, 1>>}

Did(op, popped, before) == [op |-> op, popped |-> popped, before |-> before]

\* set_focus: lines 151-153
set_focus(a, index) ==
    [a EXCEPT !.focused = index, !.did = Did("set_focus", <<>>, a.focused)]

\* show_overlay, lines 165-180: a new cell, false; the entry keeps the cell,
\* the options and the focus of now (focus_at_show: the same, for the record)
show_overlay(a, w, h) ==
    [a EXCEPT !.hidden = Append(@, FALSE),
              !.overlays = Append(@, [hidden |-> Len(a.hidden) + 1,
                                      width |-> w, height |-> h,
                                      saved_focus |-> a.focused,
                                      focus_at_show |-> a.focused]),
              !.did = Did("show_overlay", <<>>, a.focused)]

\* Fault of hide_overlay: the focus of the oldest entry is restored
restored_focus_oldest(ovs) == ovs[1].saved_focus

\* hide_overlay, line 185: the focus restored is the popped entry's
restored_focus(ovs) == ovs[Len(ovs)].saved_focus

\* hide_overlay: lines 183-187
hide_overlay(a) ==
    IF a.overlays = <<>>
    THEN [a EXCEPT !.did = Did("hide_overlay", <<>>, a.focused)]
    ELSE [a EXCEPT !.overlays = SubSeq(@, 1, Len(@) - 1),
                   !.focused = restored_focus(a.overlays),
                   !.did = Did("hide_overlay", <<a.overlays[Len(a.overlays)]>>,
                               a.focused)]

\* OverlayHandle::set_hidden, lines 61-63 (hide, lines 56-58, is
\* set_hidden(true)); every clone of a handle holds the same cell
set_hidden(a, cell, b) ==
    [a EXCEPT !.hidden[cell] = b, !.did = Did("set_hidden", <<>>, a.focused)]

\* Fault of has_overlay: an entry on the stack counts, hidden or not
has_overlay_any_entry(a) == a.overlays # <<>>

\* has_overlay: lines 190-192
has_overlay(a) ==
    \E i \in 1 .. Len(a.overlays) : ~a.hidden[a.overlays[i].hidden]

\* render, lines 314-331: the entries whose lines are spliced onto the base
\* content, bottom of the stack first
composited(a, width) ==
    SelectSeq([i \in 1 .. Len(a.overlays) |-> i],
              LAMBDA i : /\ ~a.hidden[a.overlays[i].hidden]
                         /\ Min(a.overlays[i].width, width) # 0
                         /\ a.overlays[i].height # 0)

\* Container::child_mut: the child at the index, if there is one
child_mut(idx) == IF idx < MaxChildren THEN <<idx>> ELSE <<>>

\* The entries of the stack that are not hidden, topmost first
visible_rev(a) ==
    SelectSeq([i \in 1 .. Len(a.overlays) |-> Len(a.overlays) + 1 - i],
              LAMBDA i : ~a.hidden[a.overlays[i].hidden])

\* The focused child of root, if focus is set and the child exists
focused_child(a) ==
    IF a.focused # NoFocus /\ child_mut(a.focused[1]) # <<>>
    THEN <<<<"child", a.focused[1]>>>>
    ELSE <<>>

\* Fault of run: the forwarded flag is not looked at
forward_key_to_both(a) ==
    (IF visible_rev(a) # <<>> THEN <<<<"overlay", visible_rev(a)[1]>>>> ELSE <<>>)
    \o focused_child(a)

\* run, lines 267-284: the components whose handle_input a key event reaches
forward_key(a) ==
    IF visible_rev(a) # <<>>
    THEN <<<<"overlay", visible_rev(a)[1]>>>>
    ELSE focused_child(a)

\* Where the TUI can be called from outside run: before run, and from the
\* handler, which is handed the TUI
CallerPcs == {"idle", "handler"}

SetFocus(index) ==
    /\ app.pc \in CallerPcs
    /\ app' = set_focus(app, index)
    /\ UNCHANGED <<tui, term, screen, sl, inp, txt, rt>>

ShowOverlay(w, h) ==
    /\ app.pc \in CallerPcs
    /\ Len(app.hidden) < MaxOverlays
    /\ app' = show_overlay(app, w, h)
    /\ UNCHANGED <<tui, term, screen, sl, inp, txt, rt>>

HideOverlay ==
    /\ app.pc \in CallerPcs
    /\ app' = hide_overlay(app)
    /\ UNCHANGED <<tui, term, screen, sl, inp, txt, rt>>

SetHidden(cell, b) ==
    /\ app.pc \in CallerPcs
    /\ cell \in 1 .. Len(app.hidden)
    /\ app' = set_hidden(app, cell, b)
    /\ UNCHANGED <<tui, term, screen, sl, inp, txt, rt>>

\* Overlays shown, hidden and popped between focus changes
NextOverlay ==
    \/ \E index \in FocusValues : SetFocus(index)
    \/ \E shape \in OverlayShapes : ShowOverlay(shape[1], shape[2])
    \/ HideOverlay
    \/ \E cell \in 1 .. MaxOverlays, b \in BOOLEAN : SetHidden(cell, b)

SpecOverlay == Init /\ [][NextOverlay]_vars

\* ------------------------------------------------------------------- run
\* The two channels of the run loop
Channels == {"ct", "user"}

\* What a producer sends: crossterm events (a key, a resize, any other) on
\* the terminal channel, payloads on the user channel
EventsOf(ch) == IF ch = "ct" THEN {"key", "resize", "other"} ELSE {"user"}

\* The frames the components render to while the loop runs
RunFrames == {<<>>, <<<<"a", "b">>>>}

\* The senders the TUI keeps for itself: the fields event_tx (line 90) and
\* crossterm_tx (line 99), one each, alive as long as the TUI is
own_senders == 1

\* The senders of a channel that are alive: the TUI's own, the ones handed
\* out (lines 132-134, 139-141), and the bridging task's clone (line 236)
senders(a, ch) ==
    own_senders + a.ext[ch] + (IF ch = "ct" /\ a.task = "running" THEN 1 ELSE 0)

queue_of(a, ch) == IF ch = "ct" THEN a.ctq ELSE a.userq

\* recv() yields None: the queue is empty and every sender is dropped
recv_none(a, ch) == queue_of(a, ch) = <<>> /\ senders(a, ch) = 0

\* quit: lines 145-147
Quit ==
    /\ app.pc \in CallerPcs
    /\ app' = [app EXCEPT !.should_quit = TRUE,
                          !.did = Did("quit", <<>>, app.focused)]
    /\ UNCHANGED <<tui, term, screen, sl, inp, txt, rt>>

\* event_tx (lines 132-134) and crossterm_event_tx (lines 139-141): a clone
\* of the sender is handed out
EventTx(ch) ==
    /\ app.pc \in CallerPcs
    /\ app.ext[ch] < MaxSenders
    /\ app' = [app EXCEPT !.ext[ch] = @ + 1]
    /\ UNCHANGED <<tui, term, screen, sl, inp, txt, rt>>

\* A producer sends on its clone while run holds the receivers
Send(ch, ev) ==
    /\ app.ext[ch] > 0
    /\ app.pc \notin {"done", "unwound"}
    /\ app.sent < MaxEvents
    /\ app' = [app EXCEPT !.ctq = IF ch = "ct" THEN Append(@, ev) ELSE @,
                          !.userq = IF ch = "user" THEN Append(@, ev) ELSE @,
                          !.sent = @ + 1]
    /\ UNCHANGED <<tui, term, screen, sl, inp, txt, rt>>

\* A producer drops its clone
DropSender(ch) ==
    /\ app.ext[ch] > 0
    /\ app' = [app EXCEPT !.ext[ch] = @ - 1]
    /\ UNCHANGED <<tui, term, screen, sl, inp, txt, rt>>

\* The bridging task, lines 237-249: the stream yields an event, sent on
TaskSend(ev) ==
    /\ app.task = "running"
    /\ app.pc \notin {"done", "unwound"}
    /\ app.sent < MaxEvents
    /\ app' = [app EXCEPT !.ctq = Append(@, ev), !.sent = @ + 1]
    /\ UNCHANGED <<tui, term, screen, sl, inp, txt, rt>>

\* The bridging task ends: the stream ended or failed (lines 239, 246), or
\* the send failed because run has dropped the receiver (lines 242-244)
TaskEnd ==
    /\ app.task = "running"
    /\ app' = [app EXCEPT !.task = "ended"]
    /\ UNCHANGED <<tui, term, screen, sl, inp, txt, rt>>

\* run, lines 226-250: start, the first render, the receivers taken, the
\* bridging task spawned
RunStart(lines) ==
    /\ app.pc = "idle"
    /\ LET r == render(lines)
       IN /\ tui' = r.tui
          /\ term' = [term EXCEPT !.calls = <<<<"start", <<>>>>>> \o r.calls]
    /\ app' = [app EXCEPT !.pc = "select", !.task = "running",
                          !.log = <<"start", "render">>]
    /\ UNCHANGED <<screen, sl, inp, txt, rt>>

\* select!, lines 253-264: the branches that can complete
select(a) ==
    {ch \in Channels : queue_of(a, ch) # <<>>}
    \cup (IF \A ch \in Channels : recv_none(a, ch) THEN {"else"} ELSE {})

\* The position after an iteration: lines 291-293
after_iteration(a) == IF a.should_quit THEN "exit" ELSE "select"

\* The loop takes an event, lines 252-285: a crossterm event that is neither
\* key nor resize is no event for the handler; a key is forwarded
RunTake(branch) ==
    /\ app.pc = "select"
    /\ branch \in select(app)
    /\ app' =
         IF branch = "else"
         THEN [app EXCEPT !.pc = "exit", !.ev = "none", !.delivered = <<>>,
                          !.log = <<"break">>]
         ELSE LET ev == Head(queue_of(app, branch))
                  a == [app EXCEPT !.ctq = IF branch = "ct" THEN Tail(@) ELSE @,
                                   !.userq = IF branch = "user" THEN Tail(@) ELSE @]
              IN IF ev = "other"
                 THEN [a EXCEPT !.pc = after_iteration(app), !.ev = "none",
                                !.delivered = <<>>, !.log = <<"take">>]
                 ELSE [a EXCEPT !.pc = "handler", !.ev = ev,
                                !.delivered = IF ev = "key" THEN forward_key(app)
                                              ELSE <<>>,
                                !.log = <<"take">>
                                        \o (IF ev = "key" /\ forward_key(app) # <<>>
                                            THEN <<"forward">> ELSE <<>>)]
    /\ UNCHANGED <<tui, term, screen, sl, inp, txt, rt>>

\* The handler returns: line 287
HandlerReturn ==
    /\ app.pc = "handler"
    /\ app' = [app EXCEPT !.pc = "render", !.log = Append(@, "handler")]
    /\ UNCHANGED <<tui, term, screen, sl, inp, txt, rt>>

\* The handler panics: run unwinds, its locals are dropped (the receivers;
\* the JoinHandle, which leaves the task running)
HandlerPanic ==
    /\ app.pc = "handler"
    /\ app' = [app EXCEPT !.pc = "unwound", !.log = Append(@, "panic")]
    /\ UNCHANGED <<tui, term, screen, sl, inp, txt, rt>>

\* render after the handler, line 288, and the look at should_quit, 291-293
RunRender(lines) ==
    /\ app.pc = "render"
    /\ LET r == render(lines)
       IN /\ tui' = r.tui
          /\ term' = [term EXCEPT !.calls = r.calls]
    /\ app' = [app EXCEPT !.pc = after_iteration(app), !.log = Append(@, "render")]
    /\ UNCHANGED <<screen, sl, inp, txt, rt>>

\* Fault of run: the terminal is stopped and the task left running
exit_steps_stop_only == <<"stop">>

\* run, lines 296-297
exit_steps == <<"abort", "stop">>

RECURSIVE RunExitSteps(_, _, _, _)
\* The steps of leaving the loop, in their order
RunExitSteps(steps, a, t, calls) ==
    IF steps = <<>> THEN [app |-> a, tui |-> t, calls |-> calls]
    ELSE IF Head(steps) = "abort"
         THEN RunExitSteps(Tail(steps),
                           [a EXCEPT !.task = IF @ = "running" THEN "aborted" ELSE @,
                                     !.log = Append(@, "abort")],
                           t, calls)
         ELSE RunExitSteps(Tail(steps), [a EXCEPT !.log = Append(@, "stop")],
                           IF t.hardware_cursor_row < t.cursor_row
                           THEN [t EXCEPT !.hardware_cursor_row = t.cursor_row]
                           ELSE t,
                           stop_calls(t))

\* The loop is left: lines 296-297
RunExit ==
    /\ app.pc = "exit"
    /\ LET r == RunExitSteps(exit_steps, app, tui, term.calls)
       IN /\ app' = [r.app EXCEPT !.pc = "done"]
          /\ tui' = r.tui
          /\ term' = [term EXCEPT !.calls = r.calls]
    /\ UNCHANGED <<screen, sl, inp, txt, rt>>

\* The run loop with its producers; a child may be focused before it runs,
\* the handler may quit, hand out senders or panic
NextRun ==
    \/ app.pc = "idle" /\ SetFocus(Some(0))
    \/ Quit
    \/ \E ch \in Channels : EventTx(ch)
    \/ \E ch \in Channels : \E ev \in EventsOf(ch) : Send(ch, ev)
    \/ \E ch \in Channels : DropSender(ch)
    \/ \E ev \in EventsOf("ct") : TaskSend(ev)
    \/ TaskEnd
    \/ \E lines \in RunFrames : RunStart(lines)
    \/ \E branch \in Channels \cup {"else"} : RunTake(branch)
    \/ HandlerReturn
    \/ HandlerPanic
    \/ \E lines \in RunFrames : RunRender(lines)
    \/ RunExit

SpecRun == Init /\ [][NextRun]_vars

\* The loop goes on when it can: the executor polls run when a queue has an
\* event or is closed, the handler comes back, render and stop return
FairRun ==
    /\ SpecRun
    /\ WF_vars(\E branch \in Channels \cup {"else"} : RunTake(branch))
    /\ WF_vars(HandlerReturn \/ HandlerPanic)
    /\ WF_vars(\E lines \in RunFrames : RunRender(lines))
    /\ WF_vars(RunExit)

\* The run loop given keys, with overlays and focus set up before it runs
NextKeys ==
    \/ app.pc = "idle" /\ \E index \in FocusValues : SetFocus(index)
    \/ app.pc = "idle" /\ ShowOverlay(MaxWidth, 1)
    \/ app.pc = "idle" /\ HideOverlay
    \/ app.pc = "idle" /\ \E cell \in 1 .. MaxOverlays, b \in BOOLEAN : SetHidden(cell, b)
    \/ RunStart(<<>>)
    \/ TaskSend("key")
    \/ RunTake("ct")
    \/ HandlerReturn
    \/ RunRender(<<>>)

SpecKeys == Init /\ [][NextKeys]_vars

\* ------------------------------------------------------------ SelectList
\* Labels of items, as their characters
Labels == {<<"a">>, <<"A", "b">>, <<"b">>}

\* The lists a SelectList is made of
ItemLists == UNION {[1 .. n -> Labels] : n \in 0 .. MaxItems}

\* The queries set_filter is called with
Queries == {<<>>, <<"a">>, <<"A">>, <<"a", "B">>, <<"c">>}

\* The key codes handle_input is called with
KeyCodes == {"Up", "Down", "Enter", "Esc", "Tab"}

\* char::to_lowercase on the characters of the labels and queries
lower(c) == IF c = "A" THEN "a" ELSE IF c = "B" THEN "b" ELSE c

\* str::to_lowercase
to_lowercase(str) == [i \in 1 .. Len(str) |-> lower(str[i])]

\* str::starts_with
starts_with(str, prefix) ==
    /\ Len(prefix) <= Len(str)
    /\ SubSeq(str, 1, Len(prefix)) = prefix

\* SelectList::new: lines 67-79; indices count from 0 as in the code
SelectList_new(items, max_visible) ==
    [made |-> TRUE, items |-> items,
     max_visible |-> IF max_visible < 1 THEN 1 ELSE max_visible,
     selected |-> 0, scroll_offset |-> 0, filter |-> <<>>,
     filtered_indices |-> [i \in 1 .. Len(items) |-> i - 1],
     key |-> "none", fired |-> "none"]

\* set_filter: lines 90-102
set_filter(s, query) ==
    [s EXCEPT !.filter = query,
              !.filtered_indices =
                  SelectSeq([i \in 1 .. Len(s.items) |-> i - 1],
                            LAMBDA i : starts_with(to_lowercase(s.items[i + 1]),
                                                   to_lowercase(query))),
              !.selected = 0,
              !.scroll_offset = 0]

\* filtered_count: lines 139-141
filtered_count(s) == Len(s.filtered_indices)

\* Fault of ensure_visible: the window is never moved
ensure_visible_never_scrolls(s) == s

\* ensure_visible: lines 129-136
ensure_visible(s) ==
    LET s1 == IF s.selected < s.scroll_offset
              THEN [s EXCEPT !.scroll_offset = s.selected]
              ELSE s
    IN IF s1.selected >= s1.scroll_offset + s1.max_visible
       THEN [s1 EXCEPT !.scroll_offset = s1.selected - s1.max_visible + 1]
       ELSE s1

\* move_up: lines 105-116
move_up(s) ==
    IF filtered_count(s) = 0 THEN s
    ELSE ensure_visible([s EXCEPT !.selected = IF s.selected = 0
                                               THEN filtered_count(s) - 1
                                               ELSE s.selected - 1])

\* Fault of move_down: the selection stops at the last row
move_down_no_wrap(s) ==
    IF filtered_count(s) = 0 THEN s
    ELSE ensure_visible([s EXCEPT !.selected = Min(s.selected + 1,
                                                   filtered_count(s) - 1)])

\* move_down: lines 119-126
move_down(s) ==
    IF filtered_count(s) = 0 THEN s
    ELSE ensure_visible([s EXCEPT !.selected = (s.selected + 1) % filtered_count(s)])

\* selected_item, lines 82-86: the index into items, if there is one
selected_item(s) ==
    IF s.selected < filtered_count(s)
    THEN <<s.filtered_indices[s.selected + 1]>>
    ELSE <<>>

\* handle_input: lines 211-229; the callbacks are handed the item only
handle_input(s, code) ==
    LET t == [s EXCEPT !.key = code, !.fired = "none"]
    IN CASE code = "Up" -> move_up(t)
         [] code = "Down" -> move_down(t)
         [] code = "Enter" -> IF selected_item(s) # <<>>
                              THEN [t EXCEPT !.fired = "on_select"] ELSE t
         [] code = "Esc" -> [t EXCEPT !.fired = "on_cancel"]
         [] OTHER -> t

\* render, lines 158-163: the rows of the filtered list that are shown
window(s) ==
    LET count == filtered_count(s)
        visible_count == Min(count, s.max_visible)
        visible_end == Min(s.scroll_offset + visible_count, count)
    IN {i \in 0 .. count : s.scroll_offset <= i /\ i < visible_end}

NewSelectList(items, max_visible) ==
    /\ ~sl.made
    /\ sl' = SelectList_new(items, max_visible)
    /\ UNCHANGED <<tui, term, screen, app, inp, txt, rt>>

SetFilter(query) ==
    /\ sl.made
    /\ sl' = [set_filter(sl, query) EXCEPT !.key = "none", !.fired = "none"]
    /\ UNCHANGED <<tui, term, screen, app, inp, txt, rt>>

HandleInput(code) ==
    /\ sl.made
    /\ sl' = handle_input(sl, code)
    /\ UNCHANGED <<tui, term, screen, app, inp, txt, rt>>

\* A SelectList given keys and filters
NextSelect ==
    \/ \E items \in ItemLists, max_visible \in 0 .. MaxVisible :
          NewSelectList(items, max_visible)
    \/ \E query \in Queries : SetFilter(query)
    \/ \E code \in KeyCodes : HandleInput(code)

SpecSelect == Init /\ [][NextSelect]_vars

\* ------------------------------------------------------------------ Input
\* The characters typed: a letter, a space, and a wide one (3 bytes of
\* UTF-8, 2 columns)
InputChars == {"u", " ", "W"}

len_utf8(c) == IF c = "W" THEN 3 ELSE 1

\* char_col_width: lines 299-301
char_col_width(c) == IF c = "W" THEN 2 ELSE 1

RECURSIVE byte_len(_)
\* str::len: the bytes of the characters
byte_len(chars) ==
    IF chars = <<>> THEN 0 ELSE len_utf8(Head(chars)) + byte_len(Tail(chars))

RECURSIVE chars_col_width(_)
\* chars_col_width: lines 304-306
chars_col_width(chars) ==
    IF chars = <<>> THEN 0
    ELSE char_col_width(Head(chars)) + chars_col_width(Tail(chars))

\* char_to_byte: lines 64-70
char_to_byte(buffer, char_idx) ==
    IF char_idx < Len(buffer) THEN byte_len(SubSeq(buffer, 1, char_idx))
    ELSE byte_len(buffer)

\* The character indices that start at a byte offset (none: the offset is not
\* a char boundary)
at_byte(buffer, b) == {n \in 0 .. Len(buffer) : byte_len(SubSeq(buffer, 1, n)) = b}

Panicked(s) == [s EXCEPT !.panic = TRUE]

\* String::insert: panics off a char boundary
String_insert(s, b, c) ==
    IF at_byte(s.buffer, b) = {} THEN Panicked(s)
    ELSE LET n == CHOOSE n \in at_byte(s.buffer, b) : TRUE
         IN [s EXCEPT !.buffer = SubSeq(@, 1, n) \o <<c>> \o SubSeq(@, n + 1, Len(@))]

\* String::drain(b1..b2): panics off a char boundary or when b1 > b2
String_drain(s, b1, b2) ==
    IF at_byte(s.buffer, b1) = {} \/ at_byte(s.buffer, b2) = {} \/ b1 > b2
    THEN Panicked(s)
    ELSE LET n1 == CHOOSE n \in at_byte(s.buffer, b1) : TRUE
             n2 == CHOOSE n \in at_byte(s.buffer, b2) : TRUE
         IN [s EXCEPT !.buffer = SubSeq(@, 1, n1) \o SubSeq(@, n2 + 1, Len(@))]

\* insert_char: lines 73-77
insert_char(s, c) ==
    LET t == String_insert(s, char_to_byte(s.buffer, s.cursor), c)
    IN [t EXCEPT !.cursor = @ + 1]

\* Fault of delete_backward: no look at the cursor first
delete_backward_unguarded(s) ==
    LET t == [s EXCEPT !.cursor = IF @ > 0 THEN @ - 1 ELSE 0]
    IN String_drain(t, char_to_byte(t.buffer, t.cursor),
                    char_to_byte(t.buffer, t.cursor + 1))

\* delete_backward: lines 80-87
delete_backward(s) ==
    IF s.cursor > 0
    THEN LET t == [s EXCEPT !.cursor = @ - 1]
         IN String_drain(t, char_to_byte(t.buffer, t.cursor),
                         char_to_byte(t.buffer, t.cursor + 1))
    ELSE s

\* delete_forward: lines 90-97
delete_forward(s) ==
    IF s.cursor < Len(s.buffer)
    THEN String_drain(s, char_to_byte(s.buffer, s.cursor),
                      char_to_byte(s.buffer, s.cursor + 1))
    ELSE s

RECURSIVE skip_back(_, _, _)
\* The loops of lines 130-137: back over the characters that are (or are
\* not) spaces
skip_back(chars, pos, spaces) ==
    IF pos > 0 /\ ((chars[pos] = " ") = spaces)
    THEN skip_back(chars, pos - 1, spaces) ELSE pos

RECURSIVE skip_forward(_, _, _)
\* The loops of lines 147-154; chars[pos] of the code is chars[pos + 1] here
skip_forward(chars, pos, spaces) ==
    IF pos < Len(chars) /\ ((chars[pos + 1] = " ") = spaces)
    THEN skip_forward(chars, pos + 1, spaces) ELSE pos

\* move_word_backward: lines 123-139
move_word_backward(s) ==
    IF s.cursor = 0 THEN s
    ELSE [s EXCEPT !.cursor = skip_back(s.buffer, skip_back(s.buffer, @, TRUE), FALSE)]

\* move_word_forward: lines 142-156
move_word_forward(s) ==
    [s EXCEPT !.cursor = skip_forward(s.buffer, skip_forward(s.buffer, @, FALSE), TRUE)]

\* delete_word_backward: lines 100-110
delete_word_backward(s) ==
    IF s.cursor = 0 THEN s
    ELSE LET t == move_word_backward(s)
         IN String_drain(t, char_to_byte(t.buffer, t.cursor),
                         char_to_byte(t.buffer, s.cursor))

\* delete_to_start: lines 113-117
delete_to_start(s) ==
    [String_drain(s, 0, char_to_byte(s.buffer, s.cursor)) EXCEPT !.cursor = 0]

\* delete_to_end: lines 120-123
delete_to_end(s) ==
    String_drain(s, char_to_byte(s.buffer, s.cursor), byte_len(s.buffer))

\* A key event: its code, whether Ctrl is held, the character of a Char
Key(code, ctrl, ch) == [code |-> code, ctrl |-> ctrl, ch |-> ch]

InputKeys ==
    {Key(code, ctrl, "") :
        code \in {"Left", "Right", "Home", "End", "Backspace", "Delete",
                  "Enter", "Esc", "Tab"},
        ctrl \in BOOLEAN}
    \cup {Key("Char", ctrl, c) : ctrl \in BOOLEAN, c \in InputChars}
    \cup {Key("Char", TRUE, "k")}

\* The match of handle_input: lines 245-283
input_match(s, key) ==
    CASE key.code = "Left" /\ key.ctrl -> move_word_backward(s)
      [] key.code = "Right" /\ key.ctrl -> move_word_forward(s)
      [] key.code = "Left" /\ ~key.ctrl ->
            IF s.cursor > 0 THEN [s EXCEPT !.cursor = @ - 1] ELSE s
      [] key.code = "Right" /\ ~key.ctrl ->
            IF s.cursor < Len(s.buffer) THEN [s EXCEPT !.cursor = @ + 1] ELSE s
      [] key.code = "Home" -> [s EXCEPT !.cursor = 0]
      [] key.code = "End" -> [s EXCEPT !.cursor = Len(s.buffer)]
      [] key.code = "Backspace" /\ key.ctrl -> delete_word_backward(s)
      [] key.code = "Backspace" /\ ~key.ctrl -> delete_backward(s)
      [] key.code = "Delete" -> delete_forward(s)
      [] key.code = "Char" /\ key.ctrl /\ key.ch = "u" -> delete_to_start(s)
      [] key.code = "Char" /\ key.ctrl /\ key.ch = "k" -> delete_to_end(s)
      [] key.code = "Char" /\ ~key.ctrl -> insert_char(s, key.ch)
      [] OTHER -> s

\* handle_input, lines 241-296: the match, then the cursor is brought back
\* into the buffer
Input_handle_input(s, key) ==
    LET t == input_match(s, key)
    IN [t EXCEPT !.cursor = IF @ > Len(t.buffer) THEN Len(t.buffer) ELSE @,
                 !.op = <<key.code, key.ctrl>>]

\* set_value: lines 52-56
set_value(s, v) ==
    [s EXCEPT !.buffer = v, !.cursor = Len(v), !.scroll_offset = 0,
              !.op = <<"set_value", FALSE>>]

\* The width of the cursor glyph: lines 326-330
cursor_w(cursor, chars) ==
    IF cursor < Len(chars)
    THEN (IF char_col_width(chars[cursor + 1]) < 1 THEN 1
          ELSE char_col_width(chars[cursor + 1]))
    ELSE 1

RECURSIVE scroll_right(_, _, _, _)
\* The loop of compute_scroll: lines 324-339
scroll_right(offset, cursor, available, chars) ==
    IF chars_col_width(SubSeq(chars, offset + 1, cursor)) + cursor_w(cursor, chars)
         <= available
    THEN offset
    ELSE IF offset < cursor
         THEN scroll_right(offset + 1, cursor, available, chars)
         ELSE offset

\* compute_scroll: lines 310-342
compute_scroll(cursor, current_offset, available, chars) ==
    IF available = 0 THEN 0
    ELSE LET o1 == Min(current_offset, Len(chars))
             o2 == IF cursor < o1 THEN cursor ELSE o1
         IN scroll_right(o2, cursor, available, chars)

RECURSIVE visible_end(_, _, _, _)
\* The walk of lines 185-194: the index after the last character that fits
visible_end(chars, i, vis_cols, available) ==
    IF i < Len(chars) /\ vis_cols + char_col_width(chars[i + 1]) <= available
    THEN visible_end(chars, i + 1, vis_cols + char_col_width(chars[i + 1]), available)
    ELSE i

Spaces(n) == [i \in 1 .. n |-> " "]

\* x.saturating_sub(y)
saturating_sub(x, y) == IF x > y THEN x - y ELSE 0

\* Input::render, lines 171-239: the one line, as its characters and escape
\* codes, and the scroll offset stored
Input_render(s, total_width) ==
    IF total_width <= 2
    THEN [line |-> Spaces(total_width), scroll |-> s.scroll_offset]
    ELSE
      LET available == total_width - 2
          chars == s.buffer
          scroll == compute_scroll(s.cursor, s.scroll_offset, available, chars)
          vend == visible_end(chars, scroll, 0, available)
          vis_cols == chars_col_width(SubSeq(chars, scroll + 1, vend))
          cursor_char == IF s.cursor < Len(chars) THEN chars[s.cursor + 1] ELSE " "
          after_start == Min(s.cursor + 1, vend)
          cursor_extra == IF s.cursor >= Len(chars) THEN 1 ELSE 0
      IN [line |->
            IF s.focused
            THEN <<">", " ">> \o SubSeq(chars, scroll + 1, s.cursor)
                 \o <<"ESC[7m", cursor_char, "ESC[27m">>
                 \o (IF after_start < vend
                     THEN SubSeq(chars, after_start + 1, vend) ELSE <<>>)
                 \o Spaces(saturating_sub(total_width, 2 + vis_cols + cursor_extra))
            ELSE <<">", " ">> \o SubSeq(chars, scroll + 1, vend)
                 \o Spaces(saturating_sub(total_width, 2 + vis_cols)),
          scroll |-> scroll]

\* The buffers set_value is called with
InputValues == UNION {[1 .. n -> InputChars] : n \in 0 .. MaxChars}

InputKey(key) ==
    /\ ~inp.panic
    /\ key.code = "Char" /\ ~key.ctrl => Len(inp.buffer) < MaxChars
    /\ inp' = Input_handle_input(inp, key)
    /\ UNCHANGED <<tui, term, screen, app, sl, txt, rt>>

InputSetValue(v) ==
    /\ ~inp.panic
    /\ inp' = set_value(inp, v)
    /\ UNCHANGED <<tui, term, screen, app, sl, txt, rt>>

\* focused is a public field
InputSetFocused(b) ==
    /\ ~inp.panic
    /\ inp' = [inp EXCEPT !.focused = b, !.op = <<"focused", FALSE>>]
    /\ UNCHANGED <<tui, term, screen, app, sl, txt, rt>>

\* render stores the scroll offset it computed: line 182
InputRender(width) ==
    /\ ~inp.panic
    /\ inp' = [inp EXCEPT !.scroll_offset = Input_render(inp, width).scroll,
                          !.op = <<"render", FALSE>>]
    /\ UNCHANGED <<tui, term, screen, app, sl, txt, rt>>

\* An Input given keys and values, rendered at changing widths
NextInput ==
    \/ \E key \in InputKeys : InputKey(key)
    \/ \E v \in InputValues : InputSetValue(v)
    \/ \E b \in BOOLEAN : InputSetFocused(b)
    \/ \E width \in 0 .. MaxCols : InputRender(width)

SpecInput == Init /\ [][NextInput]_vars

\* ------------------------------------------------------------- strip_ansi
\* utils.rs lines 6-7
ESC == 27
BEL == 7

\* The bytes of the strings given: ESC, BEL, '[', ']', 'm'
StrBytes == {ESC, BEL, 91, 93, 109}

Strings == UNION {[1 .. n -> StrBytes] : n \in 0 .. MaxStr}

\* The columns the unicode-width of the build gives a control character
ControlWidths == {0, 1}

RECURSIVE skip_range(_, _, _, _)
\* while i < bytes.len() && (lo..=hi).contains(&bytes[i]) { i += 1 }
skip_range(bytes, i, lo, hi) ==
    IF i < Len(bytes) /\ lo <= bytes[i + 1] /\ bytes[i + 1] <= hi
    THEN skip_range(bytes, i + 1, lo, hi) ELSE i

\* extract_csi, lines 40-60: the length of the sequence at pos, 0 for None
extract_csi(bytes, pos) ==
    LET i == skip_range(bytes, skip_range(bytes, pos + 2, 48, 63), 32, 47)
    IN IF i < Len(bytes) /\ 64 <= bytes[i + 1] /\ bytes[i + 1] <= 126
       THEN i + 1 - pos ELSE 0

RECURSIVE scan_string(_, _, _)
\* extract_string_sequence, lines 64-84: up to BEL or ESC '\'
scan_string(bytes, pos, i) ==
    IF i >= Len(bytes) THEN 0
    ELSE IF bytes[i + 1] = BEL THEN i + 1 - pos
    ELSE IF bytes[i + 1] = ESC /\ i + 1 < Len(bytes) /\ bytes[i + 2] = 92
         THEN i + 2 - pos
    ELSE scan_string(bytes, pos, i + 1)

extract_string_sequence(bytes, pos) == scan_string(bytes, pos, pos + 2)

\* extract_ansi_code, lines 19-36: the length of the code at pos, 0 for None
extract_ansi_code(s, pos) ==
    IF pos >= Len(s) \/ s[pos + 1] # ESC THEN 0
    ELSE IF pos + 1 >= Len(s) THEN 0
    ELSE CASE s[pos + 2] = 91 -> extract_csi(s, pos)
           [] s[pos + 2] = 93 -> extract_string_sequence(s, pos)
           [] s[pos + 2] = 95 -> extract_string_sequence(s, pos)
           [] OTHER -> 0

RECURSIVE strip_from(_, _)
\* The loop of strip_ansi: lines 96-111
strip_from(s, i) ==
    IF i >= Len(s) THEN <<>>
    ELSE IF s[i + 1] = ESC /\ extract_ansi_code(s, i) > 0
         THEN strip_from(s, i + extract_ansi_code(s, i))
         ELSE <<s[i + 1]>> \o strip_from(s, i + 1)

\* strip_ansi: lines 91-114
strip_ansi(s) == strip_from(s, 0)

RECURSIVE width_sum(_, _)
width_sum(chars, control_width) ==
    IF chars = <<>> THEN 0
    ELSE (IF Head(chars) = 9 THEN 3
          ELSE IF Head(chars) < 32 THEN control_width ELSE 1)
         + width_sum(Tail(chars), control_width)

\* visible_width: lines 120-135
visible_width(s, control_width) == width_sum(strip_ansi(s), control_width)

\* A string is stripped, the result stripped again, and both measured
StripAnsi(s, control_width) ==
    /\ ~txt.given
    /\ txt' = [given |-> TRUE, s |-> s,
               stripped |-> strip_ansi(s),
               again |-> strip_ansi(strip_ansi(s)),
               width |-> visible_width(s, control_width),
               width_stripped |-> visible_width(strip_ansi(s), control_width),
               control_width |-> control_width]
    /\ UNCHANGED <<tui, term, screen, app, sl, inp, rt>>

NextStrip ==
    /\ ~txt.given
    /\ \E s \in Strings, control_width \in ControlWidths : StripAnsi(s, control_width)

SpecStrip == Init /\ [][NextStrip]_vars

\* ================================================================ claims
\* C1: once timer_cancel(id) has returned, the waker stored for timer id is
\* never invoked afterwards, whatever a react call on another thread is doing:
\* no wake() of react is for a timer whose cancel returned after react had
\* collected its waker.
CancelledWakerNeverInvoked ==
    [][\A t \in Threads :
          ReactWake(t) =>
             ~(/\ Head(frame[t].wakers).src = "timer"
               /\ Head(frame[t].wakers).h \in cancelled)]_vars

\* C2 (as stated): in every state, an id is in the id-map if and only if
\* its key (deadline, id) is in the ordered container.
IdMapIffHeap ==
    {<<timers.deadlines[id], id>> : id \in DOMAIN timers.deadlines} = DOMAIN timers.heap

\* C2 (amended): in every state, after any sequence of timer_create,
\* timer_poll, timer_cancel and react, every key (deadline, id) of the
\* ordered container has its id in the id-map with that same deadline; the
\* converse fails for a timer that has been created and not yet polled.
HeapWithinIdMap ==
    \A k \in DOMAIN timers.heap :
        /\ k[2] \in DOMAIN timers.deadlines
        /\ timers.deadlines[k[2]] = k[1]

\* C2 witness: a react call has removed an expired timer while another timer
\* is in both tables.
HeapHoldsTimerAfterDrain ==
    /\ DOMAIN timers.heap # {}
    /\ \E t \in Threads : frame[t].drained # {}

\* C3 (as stated): a timer_poll made at or after the deadline returns Ready
\* exactly once: the timer_poll that follows the one that found the deadline
\* passed does not return Ready again.
ReadyExactlyOnce ==
    [][\A id \in TimerIds, w \in TestWakers :
          (/\ TimerPoll(id, w)
           /\ last.op = "timer_poll" /\ last.h = id /\ last.expired)
             => last'.res # "Ready"]_vars

\* C3 (amended): a timer_poll of a timer in the tables made before its
\* deadline returns Pending and leaves the timer in the id-map and in the
\* ordered container; a timer_poll made at or after the deadline, or of a
\* timer no longer in the tables, returns Ready and leaves the id absent
\* from both tables; an id that has left the id-map never returns to it, so
\* every later timer_poll of it returns Ready again.
PollPendingBeforeReadyFromDeadline ==
    [][/\ \A id \in TimerIds, w \in TestWakers :
            TimerPoll(id, w) =>
               IF id \in DOMAIN timers.deadlines /\ now < timers.deadlines[id]
               THEN /\ last'.res = "Pending"
                    /\ timers'.deadlines = timers.deadlines
                    /\ <<timers.deadlines[id], id>> \in DOMAIN timers'.heap
               ELSE /\ last'.res = "Ready"
                    /\ id \notin DOMAIN timers'.deadlines
                    /\ \A k \in DOMAIN timers'.heap : k[2] # id
       /\ \A id \in TimerIds :
            (id < timer_id /\ id \notin DOMAIN timers.deadlines)
               => id \notin DOMAIN timers'.deadlines]_vars

\* C3 witness: a timer that was polled Pending and is in both tables while a
\* timer_poll of another timer has just found its deadline passed.
PollFoundDeadlinePassed ==
    /\ last.op = "timer_poll" /\ last.res = "Ready" /\ last.expired
    /\ last.h \notin DOMAIN timers.deadlines
    /\ DOMAIN timers.heap # {}

\* C4: a source that io_register puts in a slot starts with no waker and both
\* ready latches clear, and a source in a slot that was deregistered (and
\* reused) after a react call fetched its event list gets no latch set and
\* no waker taken when that react call processes the list.
ReusedSlotCarriesNothingOver ==
    [][/\ \A fd \in Fds :
            IoRegister(fd) =>
               /\ sources'[vacant_key].read_waker = NoWaker
               /\ sources'[vacant_key].write_waker = NoWaker
               /\ ~sources'[vacant_key].read_ready
               /\ ~sources'[vacant_key].write_ready
       /\ \A t \in Threads :
            ReactProcess(t) =>
               \A k \in dereg[t] \cap DOMAIN sources : sources'[k] = sources[k]]_vars

\* C5: for every source in the table, after any sequence of io_register,
\* io_poll_readable, io_poll_writable, react and io_deregister, with the
\* poller's add and modify allowed to fail, the registered flag is true if
\* and only if the poller holds an interest entry for the source's fd.
RegisteredIffPollerHoldsFd ==
    \A k \in DOMAIN sources :
        sources[k].registered <=> sources[k].raw_fd \in DOMAIN poller

\* C6: io_poll_readable / io_poll_writable on a handle returns Ready only if
\* a react call that processed its events earlier saw a poller event for
\* that handle's source in that direction since the latch was last cleared.
ReadyOnlyAfterObservedEvent ==
    [][\A h \in Handles, w \in TestWakers :
          /\ (IoPollReadable(h, w) /\ last'.res = "Ready") => observed[h].r
          /\ (IoPollWritable(h, w) /\ last'.res = "Ready") => observed[h].w]_vars

\* C7: on a handle the source table does not hold, io_deregister changes
\* nothing, and io_poll_readable / io_poll_writable return Ready without a
\* panic and leave the source table unchanged.
UnknownHandleTolerated ==
    [][\A h \in Handles :
          h \notin DOMAIN sources =>
             /\ IoDeregister(h) => (sources' = sources /\ ~panicked')
             /\ \A w \in TestWakers :
                   (IoPollReadable(h, w) \/ IoPollWritable(h, w)) =>
                      /\ last'.res = "Ready"
                      /\ ~panicked'
                      /\ sources' = sources]_vars

\* C8: when the poller wait inside react fails, react returns the error and
\* no wake-up is lost: every timer this react call removed from the timer
\* tables has had its waker invoked by the time react returns.
NoWakeupLostOnWaitError ==
    [][\A t \in Threads :
          ReactWaitErr(t) =>
             /\ frame'[t].res = "Err"
             /\ \A id \in frame[t].drained :
                   \E i \in DOMAIN frame[t].woken :
                      frame[t].woken[i].src = "timer" /\ frame[t].woken[i].h = id]_vars

\* C9: when react fails inside block_on the failure is surfaced to the
\* caller and block_on does not go on looping as if the call had succeeded.
ReactErrorNotSwallowed ==
    [][(BlockOnReactRet /\ frame[Driver].res = "Err") => bpc' # "loop"]_vars

\* C10: block_on returns whenever its task finishes (under a running driver
\* thread); for a task that awaits a timer it has not returned before the
\* deadline; and every check of the task (at the top of the loop, and after
\* each task try_tick has run) that finds it finished returns at once,
\* whatever the ready queue still holds.
BlockOnReturnsWhenTaskFinishes ==
    /\ (tstate[MainTask] = "done") ~> (bpc = "done")
    /\ [](bpc = "done" => tstate[MainTask] = "done")
    /\ []((bpc = "done" /\ future[MainTask].kind = "timer")
            => now >= future[MainTask].deadline)
    /\ [][/\ (BlockOnCheck /\ tstate[MainTask] = "done") => bpc' = "done"
          /\ (BlockOnTick /\ queue # <<>> /\ tstate'[MainTask] = "done")
                => bpc' = "done"]_vars

\* C10 witness: block_on has returned from a task that awaited a timer with a
\* deadline in the future, while another runnable is still in the ready queue.
ReturnedAfterTimerWithQueueNotEmpty ==
    /\ bpc = "done"
    /\ future[MainTask].kind = "timer"
    /\ future[MainTask].deadline > 0
    /\ queue # <<>>

\* C11: react, with any timeout, removes every timer that has a stored waker
\* and a deadline at or before the time sampled at entry from both indexes,
\* holds its stored waker exactly once from then on, and has invoked it
\* exactly once when it returns Ok.
ExpiredTimersWokenOnce ==
    /\ [][\A t \in Threads :
            /\ ReactDrain(t) =>
                  \A k \in DOMAIN timers.heap :
                     k[1] <= frame[t].now =>
                        /\ k \notin DOMAIN timers'.heap
                        /\ k[2] \notin DOMAIN timers'.deadlines
                        /\ k[2] \in frame'[t].drained
                        /\ \E i \in DOMAIN frame'[t].wakers :
                              frame'[t].wakers[i] =
                                 [w |-> timers.heap[k], src |-> "timer", h |-> k[2]]
            /\ ReactReturn(t) =>
                  /\ frame'[t].res = "Ok"
                  /\ \A id \in frame[t].drained :
                        Cardinality({i \in DOMAIN frame[t].woken :
                                       /\ frame[t].woken[i].src = "timer"
                                       /\ frame[t].woken[i].h = id}) = 1]_vars
    /\ [](\A t \in Threads : \A id \in frame[t].drained :
            LET all == frame[t].woken \o frame[t].wakers IN
            Cardinality({i \in DOMAIN all :
                           all[i].src = "timer" /\ all[i].h = id}) = 1)

\* C11 witness: a react call has invoked the wakers of two expired timers
\* and is about to return Ok.
TwoExpiredTimersWoken ==
    \E t \in Threads :
        /\ frame[t].pc = "waking"
        /\ frame[t].wakers = <<>>
        /\ Cardinality(frame[t].drained) = 2
        /\ Len(frame[t].woken) = 2

\* C12: within one react call, every waker of a timer that was expired at
\* entry is invoked before any waker collected from a poller event of that
\* call: in the order of invocation (the wakers already invoked, then the
\* ones still held) no event waker comes before a timer waker.
TimerWakersBeforeEventWakers ==
    \A t \in Threads :
        LET all == frame[t].woken \o frame[t].wakers IN
        \A i, j \in DOMAIN all :
            (i < j /\ all[j].src = "timer") => all[i].src = "timer"

\* C12 witness: a react call has invoked a timer waker and then the waker of
\* a poller event.
TimerThenEventWoken ==
    \E t \in Threads :
        /\ Len(frame[t].woken) >= 2
        /\ frame[t].woken[1].src = "timer"
        /\ frame[t].woken[Len(frame[t].woken)].src # "timer"

\* C13: timer_poll on an id that is not in the id-map (cancelled, fired or
\* never created) returns Ready, stores no waker and leaves both timer
\* tables unchanged; timer_cancel on such an id changes nothing, so a second
\* timer_cancel leaves the state the first one left.
AbsentTimerPollReadyCancelNoop ==
    [][/\ \A id \in TimerIds :
            id \notin DOMAIN timers.deadlines =>
               /\ \A w \in TestWakers :
                     TimerPoll(id, w) => (last'.res = "Ready" /\ timers' = timers)
               /\ TimerCancel(id) => timers' = timers
       /\ \A id \in TimerIds :
            TimerCancel(id) => timer_cancel(timers', id) = timers']_vars

\* C13 witness: a timer_poll of a timer that was created and has left the
\* id-map before its deadline check returned Ready, with another timer in
\* the tables.
AbsentTimerPolledReady ==
    /\ last.op = "timer_poll" /\ last.res = "Ready" /\ ~last.expired
    /\ last.h < timer_id
    /\ DOMAIN timers.heap # {}

\* C14: try_tick pops at most one runnable and runs it: on a non-empty queue
\* it returns true, the queue loses its first runnable and nothing else,
\* and that task and no other has been run; on an empty queue it returns
\* false and changes nothing; a task spawned onto an empty queue is first in
\* the queue, so the next try_tick runs it.
TryTickRunsFirstRunnable ==
    [][/\ (TryTick \/ BlockOnTick) =>
            IF queue = <<>>
            THEN /\ last'.res = "false"
                 /\ UNCHANGED <<queue, tstate, timers>>
            ELSE /\ last'.res = "true"
                 /\ queue' = Tail(queue)
                 /\ tstate[Head(queue)] = "scheduled"
                 /\ tstate'[Head(queue)] \in {"idle", "done"}
                 /\ \A k \in Tasks \ {Head(queue)} : tstate'[k] = tstate[k]
       /\ \A task \in AuxTasks :
            (Spawn(task) /\ queue = <<>>) => queue' = <<task>>]_vars

\* C14 witness: a try_tick has returned true after running a spawned task,
\* with another runnable left in the queue.
TryTickRanSpawnedTask ==
    /\ last.op = "try_tick" /\ last.res = "true"
    /\ \E task \in AuxTasks : tstate[task] = "done"
    /\ queue # <<>>

\* C15: dropping a Timer value that has not returned Ready cancels the
\* reactor timer, so after the drop its id is absent from both timer
\* indexes; a Timer that has returned Ready issues no cancel when dropped,
\* and every later poll of it returns Ready without calling the reactor.
\* A value has returned Ready exactly when its fired field is set.
TimerDropCancelsUnlessFired ==
    /\ [][\A o \in TimerIds :
            /\ Timer_drop(o) =>
                  IF iface.timer[o].fired
                  THEN last'.op = "Timer.drop" /\ timers' = timers
                  ELSE /\ last'.op = "timer_cancel"
                       /\ o \notin DOMAIN timers'.deadlines
                       /\ \A k \in DOMAIN timers'.heap : k[2] # o
            /\ \A w \in TestWakers :
                  /\ (Timer_poll(o, w) /\ last'.res = "Ready") =>
                        iface'.timer[o].fired
                  /\ (Timer_poll(o, w) /\ iface.timer[o].fired) =>
                        /\ last'.res = "Ready"
                        /\ last'.op = "Timer.poll"
                        /\ timers' = timers]_vars
    /\ [](\A o \in DOMAIN iface.timer :
            ~iface.timer[o].live =>
               /\ o \notin DOMAIN timers.deadlines
               /\ \A k \in DOMAIN timers.heap : k[2] # o)

\* C15 witness: a Timer that was polled Pending has been dropped, which
\* cancelled it, while another that returned Ready is still alive.
TimerDroppedPendingAndOtherFired ==
    \E o, p \in DOMAIN iface.timer :
        /\ ~iface.timer[o].live /\ ~iface.timer[o].fired
        /\ last = Ret("timer_cancel", o, None)
        /\ iface.timer[p].fired /\ iface.timer[p].live

\* C16: dropping a source registration deregisters it from the reactor, and
\* for TcpStream, TcpListener and UdpSocket the deregistration (with the
\* poller removal) happens before the owned fd is closed, on normal drop and
\* on every error path after the registration: an fd that is closed, or
\* whose AsyncFd has been dropped, has no source and no poller entry.
DeregisteredBeforeClose ==
    \A fd \in Fds :
        (\/ fd \notin iface.open
         \/ /\ fd \in DOMAIN iface.sock
            /\ iface.sock[fd].pc = "dropping"
            /\ \A i \in DOMAIN iface.sock[fd].todo :
                  iface.sock[fd].todo[i] # "async_fd")
        => /\ fd \notin DOMAIN poller
           /\ \A h \in DOMAIN sources : sources[h].raw_fd # fd

\* C16 witness: on connect's error path the AsyncFd has just been dropped,
\* which removed the fd from the poller, and the fd is still to be closed.
ConnectErrorDeregisteredFirst ==
    \E fd \in DOMAIN iface.sock :
        /\ iface.sock[fd].pc = "dropping"
        /\ iface.sock[fd].todo = <<"owned_fd">>
        /\ fd \in iface.open
        /\ last = Ret("io_deregister", iface.sock[fd].handle, "deleted")

\* C17: calling render twice with nothing changed in between (the same
\* frame at the same terminal size) makes no terminal call the second time
\* and leaves previous_lines, previous_width, cursor_row and
\* hardware_cursor_row as the first call left them.
SecondRenderWritesNothing ==
    [][(/\ tui.rendered
        /\ term.width = tui.previous_width
        /\ Render(tui.previous_lines))
       => (term'.calls = <<>> /\ tui' = tui)]_vars

\* C18: after every render, whatever renders, content changes and width
\* changes came before, cursor_row is the number of lines of the frame just
\* rendered and hardware_cursor_row is at most cursor_row.
CursorRowsAfterRender ==
    tui.rendered =>
       /\ tui.cursor_row = Len(tui.previous_lines)
       /\ tui.hardware_cursor_row <= tui.cursor_row

\* C18 witness: a render of a shorter frame cleared the old lines past its
\* end and moved the cursor back up to the end of the content.
ShrunkFrameCursorParked ==
    /\ tui.rendered
    /\ tui.cursor_row < MaxLines
    /\ tui.hardware_cursor_row = tui.cursor_row
    /\ written(term.calls) # <<>>
    /\ \E n \in 1 .. MaxLines :
          written(term.calls)[Len(written(term.calls)) - 1] = CursorUp(n)

\* C19: after any sequence of renders at one non-zero width, the model
\* terminal that replayed the written bytes shows the latest frame in its
\* first rows, shows nothing in every row at or past the end of the frame,
\* and has its cursor on the row hardware_cursor_row records.
ScreenShowsLatestFrame ==
    tui.rendered =>
       /\ term.width # 0
       /\ Len(screen.rows) >= Len(tui.previous_lines)
       /\ \A i \in 1 .. Len(screen.rows) :
             screen.rows[i] = IF i <= Len(tui.previous_lines)
                              THEN tui.previous_lines[i] ELSE Blank
       /\ screen.row = tui.hardware_cursor_row

\* C19 witness: a differential render moved the cursor down to reach the
\* first changed line, and rows written earlier lie past the frame's end.
ScreenAfterCursorDown ==
    /\ tui.rendered
    /\ written(term.calls) # <<>>
    /\ \E n \in 1 .. MaxLines : written(term.calls)[2] = CursorDown(n)
    /\ Len(screen.rows) > Len(tui.previous_lines) + 1

\* C20: a render that produces output makes exactly one write followed by
\* exactly one flush, and the write begins with the synchronized-output
\* begin sequence and ends with the end sequence; a render that produces
\* no output makes no write and no flush.
OneWrappedWritePerRender ==
    /\ [][Render(tui'.previous_lines) =>
            IF render_buffer(tui, term.width, tui'.previous_lines).buffer # <<>>
            THEN /\ Len(term'.calls) = 2
                 /\ term'.calls[1][1] = "write"
                 /\ term'.calls[2] = <<"flush", <<>>>>
                 /\ Len(term'.calls[1][2]) > 2
                 /\ Head(term'.calls[1][2]) = SyncBegin
                 /\ term'.calls[1][2][Len(term'.calls[1][2])] = SyncEnd
            ELSE term'.calls = <<>>]_vars
    /\ [](term.calls # <<>> =>
            /\ Len(term.calls) = 2
            /\ term.calls[1][1] = "write"
            /\ term.calls[2] = <<"flush", <<>>>>
            /\ Head(term.calls[1][2]) = SyncBegin
            /\ term.calls[1][2][Len(term.calls[1][2])] = SyncEnd)

\* C20 witness: one render wrote a differential update, wrapped.
WroteWrappedUpdate ==
    /\ Len(term.calls) = 2
    /\ Head(term.calls[1][2]) = SyncBegin
    /\ \E i \in DOMAIN term.calls[1][2] : term.calls[1][2][i] = EraseLine

\* The 0-based indices at which two frames differ, a missing index counting
\* as different
Differ(old, new) ==
    {i \in 0 .. MaxLines - 1 :
        /\ i < Len(old) \/ i < Len(new)
        /\ i >= Len(old) \/ i >= Len(new) \/ old[i + 1] # new[i + 1]}

FirstDiff(old, new) == CHOOSE i \in Differ(old, new) : \A j \in Differ(old, new) : i <= j

LastDiff(old, new) == CHOOSE i \in Differ(old, new) : \A j \in Differ(old, new) : j <= i

\* How often a sequence occurs in what was written
Occurrences(toks, k) == Cardinality({i \in DOMAIN toks : toks[i].k = k})

\* The text written, in order
TextsOf(toks) == SelectSeq(toks, LAMBDA t : t.k = "text")

\* The text of the lines of a frame with index first..last
LinesText(lines, first, last_i) ==
    SelectSeq([i \in 1 .. Len(lines) |->
                  IF i - 1 >= first /\ i - 1 <= last_i THEN Text(lines[i])
                  ELSE Text(<<>>)],
              LAMBDA t : t.s # <<>>)

WidthChangeClearsAndRedraws ==
    [][Render(tui'.previous_lines) =>
          IF tui.rendered
          THEN term.width # tui.previous_width =>
                  /\ written(term'.calls)
                        = <<SyncBegin, ClearScreen>>
                          \o write_lines(tui'.previous_lines) \o <<SyncEnd>>
                  /\ tui'.hardware_cursor_row = Len(tui'.previous_lines)
          ELSE Occurrences(written(term'.calls), ClearScreen.k) = 0]_vars

\* C23: stop moves the hardware cursor to the end of the content before it
\* stops the terminal: with hardware_cursor_row below cursor_row it writes
\* a cursor-down by exactly the difference and only then calls the
\* terminal's stop, with the two equal it writes nothing, and afterwards
\* hardware_cursor_row equals cursor_row.
StopMovesCursorToEndFirst ==
    [][Stop =>
          /\ IF tui.hardware_cursor_row < tui.cursor_row
             THEN term'.calls
                    = << <<"write",
                           <<CursorDown(tui.cursor_row - tui.hardware_cursor_row)>>>>,
                         <<"flush", <<>>>>, <<"stop", <<>>>> >>
             ELSE term'.calls = << <<"stop", <<>>>> >>
          /\ tui'.hardware_cursor_row = tui'.cursor_row
          /\ tui'.cursor_row = tui.cursor_row]_vars

\* C23 witness: stop after a differential render that left the cursor
\* inside the content wrote a cursor-down and moved the cursor to the end.
StoppedAfterCursorDown ==
    /\ Len(term.calls) = 3
    /\ term.calls[3][1] = "stop"
    /\ \E n \in 1 .. MaxLines : term.calls[1][2] = <<CursorDown(n)>>
    /\ tui.hardware_cursor_row = tui.cursor_row

\* C24: a hide_overlay that pops an entry sets focus to the value focus had
\* when the show_overlay that pushed that entry was called and removes the
\* topmost entry only; on an empty stack it leaves focus and stack unchanged
HideOverlayRestoresFocusLifo ==
    [][HideOverlay =>
        IF app.overlays = <<>>
        THEN app'.focused = app.focused /\ app'.overlays = <<>>
        ELSE /\ app'.focused = app.overlays[Len(app.overlays)].focus_at_show
             /\ app'.overlays = SubSeq(app.overlays, 1, Len(app.overlays) - 1)]_vars

\* C24 witness: of two nested overlays the inner one was popped, and the focus
\* went back to the one of its show, which the outer one's is not
InnerOverlayPoppedFocusRestored ==
    /\ app.did.op = "hide_overlay"
    /\ app.did.popped # <<>>
    /\ Len(app.overlays) = 1
    /\ app.focused = app.did.popped[1].focus_at_show
    /\ app.focused # app.overlays[1].focus_at_show
    /\ app.focused # app.did.before

\* C25: has_overlay is true exactly when an entry of the stack is not hidden;
\* a hidden entry is neither composited nor given input; set_hidden leaves the
\* stack as it is, and after set_hidden(false) the entries of that cell count
\* as visible and are composited again (when they have a size to show)
Hidden(a, i) == a.hidden[a.overlays[i].hidden]

HiddenOverlayStaysOnStack ==
    /\ [](has_overlay(app) <=> \E i \in 1 .. Len(app.overlays) : ~Hidden(app, i))
    /\ [](\A i \in 1 .. Len(app.overlays) :
            Hidden(app, i) =>
                /\ \A k \in 1 .. Len(composited(app, term.width)) :
                       composited(app, term.width)[k] # i
                /\ forward_key(app) # <<<<"overlay", i>>>>)
    /\ [][\A cell \in 1 .. MaxOverlays, b \in BOOLEAN :
            SetHidden(cell, b) =>
                /\ app'.overlays = app.overlays
                /\ app'.focused = app.focused
                /\ \A i \in 1 .. Len(app.overlays) :
                       app.overlays[i].hidden = cell =>
                           /\ Hidden(app', i) = b
                           /\ (~b => has_overlay(app'))
                           /\ (~b /\ app.overlays[i].width # 0
                                   /\ app.overlays[i].height # 0
                                   /\ term.width # 0
                                => \E k \in 1 .. Len(composited(app', term.width)) :
                                       composited(app', term.width)[k] = i)]_vars

\* C25 witness: the only overlay was hidden through its handle; it is on the
\* stack still, and has_overlay is false
OnlyOverlayHiddenByHandle ==
    /\ app.did.op = "set_hidden"
    /\ Len(app.overlays) = 1
    /\ Hidden(app, 1)
    /\ ~has_overlay(app)
    /\ composited(app, term.width) = <<>>

\* C26: a key taken by the run loop is forwarded to at most one component:
\* the topmost overlay that is not hidden if there is one, else the focused
\* child of root if focus is set and the child exists; never to an overlay
\* and a child both, to a hidden overlay, or to an overlay below the topmost
\* visible one
VisibleOverlays(a) == {i \in 1 .. Len(a.overlays) : ~Hidden(a, i)}

KeyForwardedToAtMostOne ==
    [][(app.pc = "select" /\ app'.pc = "handler" /\ app'.ev = "key") =>
        LET d == app'.delivered
            vis == VisibleOverlays(app)
        IN /\ Len(d) <= 1
           /\ \A k \in 1 .. Len(d) :
                 /\ d[k][1] = "overlay" =>
                       /\ d[k][2] \in vis
                       /\ \A i \in vis : i <= d[k][2]
                 /\ d[k][1] = "child" =>
                       /\ vis = {}
                       /\ app.focused = Some(d[k][2])
                       /\ d[k][2] < MaxChildren
           /\ vis # {} => Len(d) = 1 /\ d[1][1] = "overlay"
           /\ (vis = {} /\ app.focused # NoFocus /\ app.focused[1] < MaxChildren)
                 => d = <<<<"child", app.focused[1]>>>>
           /\ (vis = {} /\ app.focused # NoFocus /\ app.focused[1] >= MaxChildren)
                 => d = <<>>]_vars

\* C26 witness: with the upper overlay hidden and a child focused, a key
\* went to the lower overlay alone
KeyWentToLowerVisibleOverlay ==
    /\ app.pc = "handler"
    /\ app.ev = "key"
    /\ Len(app.overlays) = 2
    /\ Hidden(app, 2)
    /\ ~Hidden(app, 1)
    /\ app.focused = Some(0)
    /\ app.delivered = <<<<"overlay", 1>>>>

\* C27: for every event the loop takes, key forwarding, the handler and render
\* happen in this order; when quit was requested the loop is left after that
\* render and no event reaches the handler afterwards; leaving the loop, the
\* bridging task is aborted and then stop is called
Forwarding == {<<>>, <<"forward">>}

Iterations ==
    {<<"take">> \o fw \o <<"handler", "render">> : fw \in Forwarding}

LastCall(calls) == IF calls = <<>> THEN "none" ELSE calls[Len(calls)][1]

RunIterationOrder ==
    /\ [](app.pc = "handler" =>
            /\ app.log \in {<<"take">> \o fw : fw \in Forwarding}
            /\ (app.log = <<"take", "forward">>) = (app.delivered # <<>>)
            /\ app.delivered # <<>> => app.ev = "key")
    /\ [](app.pc = "render" =>
            app.log \in {<<"take">> \o fw \o <<"handler">> : fw \in Forwarding})
    /\ [](app.pc = "exit" =>
            app.log \in Iterations \cup {<<"take">>, <<"break">>})
    /\ [](app.pc = "done" =>
            /\ app.log \in {l \o <<"abort", "stop">> :
                               l \in Iterations \cup {<<"take">>, <<"break">>}}
            /\ app.task # "running"
            /\ LastCall(term.calls) = "stop")
    /\ [][(app.pc = "render" /\ app.should_quit /\ app'.pc # "render")
             => app'.pc = "exit"]_vars
    /\ [][app.pc = "exit" => app'.pc \in {"exit", "done"}]_vars
    /\ [][app.pc = "done" => app'.pc = "done" /\ app'.log = app.log]_vars
    /\ [][app'.pc = "handler" /\ app.pc # "handler"
             => app.pc = "select" /\ app.ctq \o app.userq # <<>>]_vars

\* C27 witness: the handler asked to quit on a key forwarded to the focused
\* child; after the render the loop was left, the task aborted and stop
\* called, and an event is in the queue still
QuitLeftQueuedEventUnhandled ==
    /\ app.pc = "done"
    /\ app.log = <<"take", "forward", "handler", "render", "abort", "stop">>
    /\ app.task = "aborted"
    /\ app.ctq \o app.userq # <<>>
    /\ LastCall(term.calls) = "stop"

\* C28: once the senders handed out are dropped, the bridging task has ended
\* and the queues are empty, run leaves the loop and calls stop
ProducersGone ==
    /\ app.pc = "select"
    /\ app.ext.ct = 0
    /\ app.ext.user = 0
    /\ app.task # "running"
    /\ app.ctq = <<>>
    /\ app.userq = <<>>

ClosedChannelsEndRun ==
    ProducersGone ~> (app.pc = "done" /\ LastCall(term.calls) = "stop")

\* C29: when the handler panics the loop ends and the terminal's stop is
\* called while run unwinds
StopCalled ==
    \/ LastCall(term.calls) = "stop"
    \/ \E i \in 1 .. Len(app.log) : app.log[i] = "stop"

HandlerPanicStopsTerminal == app.pc = "unwound" => StopCalled

\* C30: max_visible is at least 1, and whenever the filtered list is not
\* empty the selected index is within it and within the window that starts
\* at scroll_offset, so that the rows render shows include the selected one
SelectedRowInWindow ==
    sl.made =>
        /\ sl.max_visible >= 1
        /\ filtered_count(sl) > 0 =>
              /\ sl.selected < filtered_count(sl)
              /\ sl.scroll_offset <= sl.selected
              /\ sl.selected < sl.scroll_offset + sl.max_visible
              /\ sl.selected \in window(sl)

\* C30 witness: Up on the first row of a list longer than the window wrapped
\* to the last row, and the window was scrolled to show it
WrappedUpAndScrolled ==
    /\ sl.made
    /\ sl.key = "Up"
    /\ filtered_count(sl) > sl.max_visible
    /\ sl.selected = filtered_count(sl) - 1
    /\ sl.scroll_offset = filtered_count(sl) - sl.max_visible
    /\ sl.scroll_offset > 0

\* C31: with n > 0 filtered items Down selects the next row and from n - 1
\* row 0, Up selects the row before and from 0 row n - 1; Up then Down, and
\* Down then Up, give the selected index back; with no filtered item both keys
\* leave selection and scroll offset as they are
UpDownWrap ==
    /\ [](sl.made =>
            /\ handle_input(handle_input(sl, "Up"), "Down").selected = sl.selected
            /\ handle_input(handle_input(sl, "Down"), "Up").selected = sl.selected)
    /\ [][(sl.made /\ sl'.key \in {"Up", "Down"}) =>
            LET n == filtered_count(sl)
            IN /\ filtered_count(sl') = n
               /\ n = 0 => /\ sl'.selected = sl.selected
                           /\ sl'.scroll_offset = sl.scroll_offset
               /\ (n > 0 /\ sl'.key = "Down") =>
                     sl'.selected = IF sl.selected = n - 1 THEN 0
                                    ELSE sl.selected + 1
               /\ (n > 0 /\ sl'.key = "Up") =>
                     sl'.selected = IF sl.selected = 0 THEN n - 1
                                    ELSE sl.selected - 1]_vars

\* C31 witness: Down on the last of several rows selected the first one
DownWrappedToTop ==
    /\ sl.made
    /\ sl.key = "Down"
    /\ filtered_count(sl) >= 2
    /\ sl.selected = 0

\* C32: after any keys and set_value calls the cursor is within 0 and the
\* number of characters of the buffer and no call has panicked; Backspace at
\* position 0 and Delete at the end leave buffer and cursor as they are
InputCursorWithinBuffer ==
    /\ [](~inp.panic /\ 0 <= inp.cursor /\ inp.cursor <= Len(inp.buffer))
    /\ [][(inp'.op = <<"Backspace", FALSE>> /\ inp.cursor = 0) =>
            inp'.buffer = inp.buffer /\ inp'.cursor = inp.cursor]_vars
    /\ [][(inp'.op[1] = "Delete" /\ inp.cursor = Len(inp.buffer)) =>
            inp'.buffer = inp.buffer /\ inp'.cursor = inp.cursor]_vars

\* C32 witness: Backspace was pressed at position 0 of a full buffer, which
\* is full still
BackspaceAtStartOfFullBuffer ==
    /\ inp.op = <<"Backspace", FALSE>>
    /\ inp.cursor = 0
    /\ Len(inp.buffer) = MaxChars
    /\ ~inp.panic

\* C33: at every render width greater than 2 the line render returns is as
\* wide as the render width, and the scroll offset it chooses leaves room for
\* the cursor glyph: columns(buffer[offset..cursor]) + glyph width <= width - 2
RECURSIVE line_cols(_)
line_cols(line) ==
    IF line = <<>> THEN 0
    ELSE (IF Head(line) \in {"ESC[7m", "ESC[27m"} THEN 0
          ELSE char_col_width(Head(line)))
         + line_cols(Tail(line))

CursorGlyphFits(s, width) ==
    LET r == Input_render(s, width)
    IN /\ line_cols(r.line) = width
       /\ chars_col_width(SubSeq(s.buffer, r.scroll + 1, s.cursor))
            + cursor_w(s.cursor, s.buffer) <= width - 2

InputLineFitsWidth == \A width \in 3 .. MaxCols : CursorGlyphFits(inp, width)

\* C34: strip_ansi of a stripped string is that string, and a string is as
\* wide as its stripped form
StripAnsiIdempotent ==
    txt.given => /\ txt.again = txt.stripped
                 /\ txt.width = txt.width_stripped

\* C35: whenever a source has a stored read or write waker, the poller holds
\* armed interest in that direction for the source's descriptor, or the event
\* of that direction has fired and a react call is about to process it; so an
\* event of that direction always reaches the waker
ArmedFor(source, dir) ==
    /\ source.raw_fd \in DOMAIN poller
    /\ poller[source.raw_fd].key = source.key
    /\ poller[source.raw_fd][dir]

FiredFor(source, dir) ==
    \E t \in Threads : \E i \in DOMAIN frame[t].events :
        /\ frame[t].events[i].key = source.key
        /\ IF dir = "r" THEN frame[t].events[i].readable
           ELSE frame[t].events[i].writable

StoredWakerHasArmedInterest ==
    \A k \in DOMAIN sources :
        /\ sources[k].read_waker # NoWaker =>
              ArmedFor(sources[k], "r") \/ FiredFor(sources[k], "r")
        /\ sources[k].write_waker # NoWaker =>
              ArmedFor(sources[k], "w") \/ FiredFor(sources[k], "w")

\* C36 as stated: a thread makes a poller call holding no reactor lock, but
\* for wait, which it makes holding at most the events lock
NoLockAcrossPollerCall ==
    \A t \in LockThreads :
        At(t)[1] = "poller" =>
            lk[t].held \subseteq (IF At(t)[2] = "wait" THEN {"events"} ELSE {})

\* C36: react calls the poller's wait holding the events lock and no other
\* lock; io_poll_readable, io_poll_writable and io_deregister call the
\* poller's add, modify and delete holding the sources lock and no other lock
PollerCallLocks ==
    \A t \in LockThreads :
        At(t)[1] = "poller" =>
            lk[t].held = (IF At(t)[2] = "wait" THEN {"events"} ELSE {"sources"})

\* C36 witness: one thread is inside react's wait while another is inside the
\* modify of an io_poll call
WaitAndModifyInProgress ==
    \E t, u \in LockThreads :
        /\ At(t) = PollerCall("wait")
        /\ At(u) = PollerCall("modify")
        /\ Top(u).op \in {"io_poll_readable", "io_poll_writable"}

\* C37: no thread holds two reactor locks at once, react invokes wakers
\* holding none, and a thread that waits for a lock waits for one held by
\* another thread that is not itself waiting for a lock: no set of threads
\* wait for each other, also when a waker calls back into the reactor
Blocked(t) ==
    /\ At(t)[1] = "lock"
    /\ \E u \in LockThreads : At(t)[2] \in lk[u].held

ReactorLocksNeverDeadlock ==
    \A t \in LockThreads :
        /\ Cardinality(lk[t].held) <= 1
        /\ At(t)[1] = "wake" => lk[t].held = {}
        /\ Blocked(t) =>
              \E u \in LockThreads \ {t} : At(t)[2] \in lk[u].held /\ ~Blocked(u)

\* C37 witness: a waker invoked by react has called back into the reactor and
\* holds the sources lock while another thread waits for that lock
CallbackHoldsLockOtherWaits ==
    \E t, u \in LockThreads :
        /\ Len(lk[t].stack) = 2
        /\ lk[t].stack[1].op = "react"
        /\ "sources" \in lk[t].held
        /\ Blocked(u)
        /\ At(u) = Lock("sources")

\* C38: no react call is inside the poller's wait at a time later than the
\* deadline of a timer that has a stored waker
NoWaitPastStoredDeadline ==
    \A t \in Threads :
        frame[t].pc = "waiting" =>
            \A k \in DOMAIN timers.heap : now <= k[1]

\* C39: in a block_on iteration did_work starts false, becomes true exactly
\* when a try_tick of the iteration runs a task, and the iteration goes on
\* taking tasks until a try_tick finds the queue empty; react is then called
\* with zero timeout if did_work and with the short timeout if not, so the
\* poller wait of an iteration that ran a task never blocks
BlockOnReactTimeout ==
    /\ [][/\ (BlockOnCheck /\ bpc' = "tick") => ~did_work'
          /\ (BlockOnTick /\ queue # <<>>) => (did_work' /\ bpc' \in {"tick", "done"})
          /\ (BlockOnTick /\ queue = <<>>) => (bpc' = "react" /\ UNCHANGED did_work)
          /\ did_work' # did_work => (BlockOnCheck \/ BlockOnTick)
          /\ BlockOnReact =>
                frame'[Driver].timeout = (IF did_work THEN 0 ELSE ShortTimeout)]_vars
    /\ [](bpc = "reacting" /\ did_work /\ frame[Driver].pc \in {"drained", "waiting"}
            => frame[Driver].eff = 0)

\* C39 witness: block_on ran a task that awaits a timer still to expire, and
\* is inside the poller wait of that iteration
WaitAfterTaskRan ==
    /\ bpc = "reacting"
    /\ did_work
    /\ frame[Driver].pc = "waiting"
    /\ tstate[MainTask] = "idle"
    /\ \E k \in DOMAIN timers.heap : k[1] > now

\* C40: io_poll_readable or io_poll_writable of a handle the table holds: with
\* the direction's latch set it clears the latch and returns Ready, leaving
\* the stored wakers and the poller's interest as they are; otherwise it
\* stores the given waker in place of the one stored for the direction,
\* leaves the poller with armed interest for exactly the directions that have
\* a stored waker, and returns Pending. The wakers react collects for an
\* event are the ones stored at that moment.
Latch(source, dir) == IF dir = "r" THEN source.read_ready ELSE source.write_ready

Stored(source, dir) == IF dir = "r" THEN source.read_waker ELSE source.write_waker

Other(dir) == IF dir = "r" THEN "w" ELSE "r"

PollStep(h, w, dir) == IF dir = "r" THEN IoPollReadable(h, w) ELSE IoPollWritable(h, w)

PollLatchOrStore(h, w, dir) ==
    PollStep(h, w, dir) /\ h \in DOMAIN sources =>
        IF Latch(sources[h], dir)
        THEN /\ last'.res = "Ready"
             /\ ~Latch(sources'[h], dir)
             /\ Stored(sources'[h], dir) = Stored(sources[h], dir)
             /\ Stored(sources'[h], Other(dir)) = Stored(sources[h], Other(dir))
             /\ poller' = poller
        ELSE /\ last'.res = "Pending"
             /\ Stored(sources'[h], dir) = w
             /\ Stored(sources'[h], Other(dir)) = Stored(sources[h], Other(dir))
             /\ sources[h].raw_fd \in DOMAIN poller'
             /\ poller'[sources[h].raw_fd] = Interest(sources'[h])

IoPollLatchOrStoreAndArm ==
    [][/\ \A h \in Handles, w \in TestWakers, dir \in {"r", "w"} :
             PollLatchOrStore(h, w, dir)
       /\ \A t \in Threads : ReactProcess(t) =>
             \A i \in Len(frame[t].wakers) + 1 .. Len(frame'[t].wakers) :
                LET wk == frame'[t].wakers[i] IN
                /\ wk.h \in DOMAIN sources
                /\ wk.w = Stored(sources[wk.h], wk.src)
                /\ Stored(sources'[wk.h], wk.src) = NoWaker]_vars

====
